---- MODULE Spec2Model ----
(***************************************************************************)
(* Verification model of the chart-generator backend.                      *)
(*                                                                         *)
(* Part 1: the specification normalizer,                                   *)
(*         LLMHandler.validate_and_enhance_spec (services/llm_handler.py). *)
(* Part 2: the JSON extraction of the model bridge,                        *)
(*         extract_json_from_text (services/llm_handler.py).               *)
(*                                                                         *)
(* JSON / Python values are tagged records [t, v]:                         *)
(*   null, bool, num, str (a sequence of one-character strings), list      *)
(*   (a sequence of values) and dict (a record over the keys the code      *)
(*   reads, a key the dict does not hold being Absent).                    *)
(***************************************************************************)
EXTENDS Integers, Sequences, FiniteSets, TLC

VARIABLES raw, metadata, canon, again, npc,
          text, extracted, epc,
          df, chart_spec, rendered, rpc,
          active_sessions, inflight, response, live

vars == <<raw, metadata, canon, again, npc, text, extracted, epc,
          df, chart_spec, rendered, rpc,
          active_sessions, inflight, response, live>>

normVars == <<raw, metadata, canon, again, npc>>
extractVars == <<text, extracted, epc>>
renderVars == <<df, chart_spec, rendered, rpc>>
sessionVars == <<active_sessions, inflight, response, live>>

-----------------------------------------------------------------------------
(* Bounds of the model *)

\* longest raw filter list drawn as an input
MaxFilters == 2
\* longest model-output text drawn as an input
MaxLen == 5

-----------------------------------------------------------------------------
(* Python values *)

Absent == [t |-> "absent", v |-> <<>>]
None == [t |-> "null", v |-> <<>>]
True == [t |-> "bool", v |-> <<"T">>]
False == [t |-> "bool", v |-> <<"F">>]
Num(digits) == [t |-> "num", v |-> digits]
Str(chars) == [t |-> "str", v |-> chars]
List(items) == [t |-> "list", v |-> items]
Dict(fields) == [t |-> "dict", v |-> fields]

isinstance_str(x) == x.t = "str"
isinstance_list(x) == x.t = "list"
isinstance_dict(x) == x.t = "dict"

\* Python truth value of x (bool(x))
truthy(x) ==
    CASE x.t = "null" -> FALSE
      [] x.t = "bool" -> x.v = <<"T">>
      [] x.t = "num" -> x.v # <<"0">>
      [] x.t = "str" -> Len(x.v) > 0
      [] x.t = "list" -> Len(x.v) > 0
      [] x.t = "dict" -> \E k \in DOMAIN x.v : x.v[k] # Absent

\* d.get(k): the value under k, None when the key is missing
get(d, k) == IF d[k] = Absent THEN None ELSE d[k]

\* d.get(k, default)
get_default(d, k, default) == IF d[k] = Absent THEN default ELSE d[k]

\* k in d
has_key(d, k) == d[k] # Absent

RECURSIVE or_chain(_)
\* a or b or c ...: the first truthy operand, else the last operand
or_chain(operands) ==
    IF Len(operands) = 1 THEN operands[1]
    ELSE IF truthy(operands[1]) THEN operands[1]
    ELSE or_chain(Tail(operands))

-----------------------------------------------------------------------------
(* Python string methods, on sequences of characters *)

UpperCase == <<"A","B","C","D","E","F","G","H","I","J","K","L","M",
               "N","O","P","Q","R","S","T","U","V","W","X","Y","Z">>
LowerCase == <<"a","b","c","d","e","f","g","h","i","j","k","l","m",
               "n","o","p","q","r","s","t","u","v","w","x","y","z">>
Whitespace == {" ", "\n", "\t"}

lower_char(c) ==
    IF \E i \in DOMAIN UpperCase : UpperCase[i] = c
    THEN LowerCase[CHOOSE i \in DOMAIN UpperCase : UpperCase[i] = c]
    ELSE c

upper_char(c) ==
    IF \E i \in DOMAIN LowerCase : LowerCase[i] = c
    THEN UpperCase[CHOOSE i \in DOMAIN LowerCase : LowerCase[i] = c]
    ELSE c

\* s.lower()
lower(s) == [i \in 1..Len(s) |-> lower_char(s[i])]

\* s.strip()
strip(s) ==
    LET inked == {i \in 1..Len(s) : s[i] \notin Whitespace}
        Min(S) == CHOOSE i \in S : \A j \in S : i <= j
        Max(S) == CHOOSE i \in S : \A j \in S : j <= i
    IN IF inked = {} THEN <<>> ELSE SubSeq(s, Min(inked), Max(inked))

\* s.capitalize()
capitalize(s) ==
    [i \in 1..Len(s) |-> IF i = 1 THEN upper_char(s[i]) ELSE lower_char(s[i])]

\* str(x) for a scalar x
str(x) ==
    CASE x.t = "str" -> x.v
      [] x.t = "num" -> x.v
      [] x.t = "bool" -> IF x.v = <<"T">> THEN <<"T","r","u","e">>
                         ELSE <<"F","a","l","s","e">>
      [] x.t = "null" -> <<"N","o","n","e">>

\* x in names, for a list of Python strings
in_list(x, names) == \E i \in DOMAIN names : x = Str(names[i])

-----------------------------------------------------------------------------
(* Specification normalizer: LLMHandler.validate_and_enhance_spec *)

SpecKeys == {"chart_type", "x_axis", "y_axis", "color_by", "aggregation",
             "filters", "title", "x_label", "y_label", "customization"}

ClauseKeys == {"column", "column_name", "col", "field",
               "operator", "op", "relation", "operator_symbol",
               "value", "val", "v"}

CustomKeys == {"color_scheme", "show_legend", "data_labels"}

\* the dict literal {'column': c, 'operator': o, 'value': x}
filter_dict(c, o, x) ==
    Dict([k \in ClauseKeys |->
            CASE k = "column" -> c
              [] k = "operator" -> o
              [] k = "value" -> x
              [] OTHER -> Absent])

\* op_map with the entry '==' mistyped as '='
op_map_typo ==
    << << <<"=">>, <<"=","=">> >>,
       << <<"=","=">>, <<"=">> >>,
       << <<"e","q","u","a","l","s">>, <<"=","=">> >>,
       << <<"i","s">>, <<"=","=">> >>,
       << <<"!","=">>, <<"!","=">> >>,
       << <<"n","e","q">>, <<"!","=">> >>,
       << <<"n","o","t"," ","e","q","u","a","l","s">>, <<"!","=">> >>,
       << <<">">>, <<">">> >>,
       << <<"<">>, <<"<">> >>,
       << <<">","=">>, <<">","=">> >>,
       << <<"<","=">>, <<"<","=">> >> >>

\* the op_map literal, as (key, value) pairs
op_map ==
    << << <<"=">>, <<"=","=">> >>,
       << <<"=","=">>, <<"=","=">> >>,
       << <<"e","q","u","a","l","s">>, <<"=","=">> >>,
       << <<"i","s">>, <<"=","=">> >>,
       << <<"!","=">>, <<"!","=">> >>,
       << <<"n","e","q">>, <<"!","=">> >>,
       << <<"n","o","t"," ","e","q","u","a","l","s">>, <<"!","=">> >>,
       << <<">">>, <<">">> >>,
       << <<"<">>, <<"<">> >>,
       << <<">","=">>, <<">","=">> >>,
       << <<"<","=">>, <<"<","=">> >> >>

\* op_map.get(key, default)
op_map_get(key, default) ==
    IF \E i \in DOMAIN op_map : op_map[i][1] = key
    THEN op_map[CHOOSE i \in DOMAIN op_map : op_map[i][1] = key][2]
    ELSE default

\* op_norm of one clause: a string operator is stripped, lower-cased and
\* looked up in op_map with itself as the default; any other value is kept
op_norm(op) ==
    IF isinstance_str(op)
    THEN LET op_clean == lower(strip(op.v))
         IN Str(op_map_get(op_clean, op_clean))
    ELSE op

\* val of one clause: the first of 'value', 'val', 'v' that is a key of f
clause_val(f) ==
    IF has_key(f, "value") THEN get(f, "value")
    ELSE IF has_key(f, "val") THEN get(f, "val")
    ELSE IF has_key(f, "v") THEN get(f, "v")
    ELSE None

\* [c for c in all_columns if c.lower() == str(col).lower()]
matches(col, all_columns) ==
    SelectSeq(all_columns, LAMBDA c : lower(c) = lower(str(col)))

\* filter_step with `val is not None` written as `val`: 0 and false are lost
filter_step_truthy_val(item, all_columns) ==
    IF ~isinstance_dict(item) THEN <<>>
    ELSE
      LET f == item.v
          col == or_chain(<<get(f, "column"), get(f, "column_name"),
                            get(f, "col"), get(f, "field")>>)
          op == or_chain(<<get(f, "operator"), get(f, "op"),
                           get(f, "relation"), get(f, "operator_symbol")>>)
          val == clause_val(f)
          opn == op_norm(op)
      IN IF truthy(col) /\ truthy(opn) /\ truthy(val)
         THEN IF in_list(col, all_columns)
              THEN << filter_dict(col, opn, val) >>
              ELSE IF Len(matches(col, all_columns)) > 0
                   THEN << filter_dict(Str(matches(col, all_columns)[1]), opn, val) >>
                   ELSE <<>>
         ELSE <<>>

\* one iteration of `for f in raw_filters`: what it appends
filter_step(item, all_columns) ==
    IF ~isinstance_dict(item) THEN <<>>
    ELSE
      LET f == item.v
          col == or_chain(<<get(f, "column"), get(f, "column_name"),
                            get(f, "col"), get(f, "field")>>)
          op == or_chain(<<get(f, "operator"), get(f, "op"),
                           get(f, "relation"), get(f, "operator_symbol")>>)
          val == clause_val(f)
          opn == op_norm(op)
      IN IF truthy(col) /\ truthy(opn) /\ val # None
         THEN IF in_list(col, all_columns)
              THEN << filter_dict(col, opn, val) >>
              ELSE IF Len(matches(col, all_columns)) > 0
                   THEN << filter_dict(Str(matches(col, all_columns)[1]), opn, val) >>
                   ELSE <<>>
         ELSE <<>>

RECURSIVE normalized_filters(_, _)
\* the list built by the loop over raw_filters
normalized_filters(raw_filters, all_columns) ==
    IF raw_filters = <<>> THEN <<>>
    ELSE filter_step(Head(raw_filters), all_columns)
         \o normalized_filters(Tail(raw_filters), all_columns)

\* spec after the filter block (lines 183-224)
with_filters(spec, all_columns) ==
    IF isinstance_list(get(spec, "filters"))
    THEN [spec EXCEPT !.filters =
              List(normalized_filters(get(spec, "filters").v, all_columns))]
    ELSE spec

\* the x_axis check raises
x_axis_rejected(spec, all_columns) ==
    truthy(get(spec, "x_axis")) /\ ~in_list(spec.x_axis, all_columns)

\* spec after a y_axis / color_by naming no column is set to None
clear_unknown(spec, key, all_columns) ==
    IF truthy(get(spec, key)) /\ ~in_list(spec[key], all_columns)
    THEN [spec EXCEPT ![key] = None]
    ELSE spec

\* with_aggregation testing y_axis against all columns, not the numerical ones
with_aggregation_any_column(spec, meta) ==
    IF ~truthy(get(spec, "aggregation"))
    THEN IF in_list(get(spec, "y_axis"), meta.columns)
         THEN [spec EXCEPT !.aggregation = Str(<<"m","e","a","n">>)]
         ELSE [spec EXCEPT !.aggregation = Str(<<"c","o","u","n","t">>)]
    ELSE spec

\* spec after the aggregation default
with_aggregation(spec, meta) ==
    IF ~truthy(get(spec, "aggregation"))
    THEN IF in_list(get(spec, "y_axis"), meta.numerical_columns)
         THEN [spec EXCEPT !.aggregation = Str(<<"m","e","a","n">>)]
         ELSE [spec EXCEPT !.aggregation = Str(<<"c","o","u","n","t">>)]
    ELSE spec

\* the title default calls .capitalize() on a chart_type that is no string
title_raises(spec) ==
    /\ ~truthy(get(spec, "title"))
    /\ ~isinstance_str(get_default(spec, "chart_type", Str(<<"C","h","a","r","t">>)))

\* spec after the title default
with_title(spec) ==
    IF ~truthy(get(spec, "title"))
    THEN [spec EXCEPT !.title =
            Str(capitalize(get_default(spec, "chart_type",
                                       Str(<<"C","h","a","r","t">>)).v)
                \o <<" ","C","h","a","r","t">>)]
    ELSE spec

\* spec after the x_label default
with_x_label(spec) ==
    IF ~truthy(get(spec, "x_label"))
    THEN [spec EXCEPT !.x_label = get(spec, "x_axis")]
    ELSE spec

\* spec after the y_label default
with_y_label(spec) ==
    IF ~truthy(get(spec, "y_label"))
    THEN [spec EXCEPT !.y_label = get_default(spec, "y_axis", Str(<<"V","a","l","u","e">>))]
    ELSE spec

NoSpec == Absent

Raised(cause) == [ok |-> FALSE, error |-> "ValueError", cause |-> cause, spec |-> NoSpec]
Returned(spec) == [ok |-> TRUE, error |-> "none", cause |-> "none", spec |-> spec]

\* validate_and_enhance_spec(spec, metadata): the returned dict, or the
\* ValueError every exception of the body is wrapped in
validate_and_enhance_spec(spec, meta) ==
    LET all_columns == meta.columns
        s1 == with_filters(spec, all_columns)
        s2 == clear_unknown(s1, "y_axis", all_columns)
        s3 == clear_unknown(s2, "color_by", all_columns)
        s4 == with_aggregation(s3, meta)
    IN IF x_axis_rejected(s1, all_columns) THEN Raised("column not found")
       ELSE IF title_raises(s4) THEN Raised("attribute error")
       ELSE Returned(with_y_label(with_x_label(with_title(s4))))

-----------------------------------------------------------------------------
(* Inputs of the normalizer: raw chart intents and dataset metadata *)

Age == <<"A","g","e">>
age == <<"a","g","e">>
AGE == <<"A","G","E">>
name == <<"n","a","m","e">>
zz == <<"z","z">>

\* the metadata analyze_data_structure builds, restricted to the keys the
\* normalizer reads; numerical_columns is a sublist of columns
Metadatas ==
    { [columns |-> <<Age, name>>, numerical_columns |-> <<Age>>],
      [columns |-> <<age, Age, name>>, numerical_columns |-> <<age, Age>>],
      [columns |-> <<name>>, numerical_columns |-> <<>>] }

EmptyClause == [k \in ClauseKeys |-> Absent]
EmptyCustom == [k \in CustomKeys |-> Absent]

Thirty == Num(<<"3","0">>)
Zero == Num(<<"0">>)
One == Num(<<"1">>)

\* raw filter items as a text-generation service may spell them
Clauses ==
    { Dict([EmptyClause EXCEPT !.col = Str(Age), !.op = Str(<<"i","s">>), !.val = Thirty]),
      Dict([EmptyClause EXCEPT !.column = Str(AGE), !.operator = Str(<<"=">>), !.value = Zero]),
      Dict([EmptyClause EXCEPT !.column = Str(name), !.operator = Str(<<"n","e","q">>),
                               !.value = False]),
      Dict([EmptyClause EXCEPT !.column = Str(name), !.operator = Str(<<" ","I","S"," ">>),
                               !.value = Str(<<"x">>)]),
      Dict([EmptyClause EXCEPT !.column = Str(zz), !.operator = Str(<<"=","=">>),
                               !.value = Str(<<"x">>)]),
      Dict([EmptyClause EXCEPT !.column = Str(Age), !.operator = Str(<<">","=">>)]),
      Dict([EmptyClause EXCEPT !.column = Str(Age), !.operator = Str(<<"L","i","k","e">>),
                               !.value = Str(<<"x">>)]),
      Dict([EmptyClause EXCEPT !.field = Str(name),
                               !.relation = Str(<<"n","o","t"," ","e","q","u","a","l","s">>),
                               !.v = Str(<<"x">>)]),
      Dict([EmptyClause EXCEPT !.column = Str(Age), !.operator = Str(<<"<">>),
                               !.value = None, !.val = One]),
      Dict([EmptyClause EXCEPT !.column = Str(<<>>), !.column_name = Str(Age),
                               !.operator = Str(<<>>), !.operator_symbol = Str(<<"!","=">>),
                               !.value = One]),
      Dict([EmptyClause EXCEPT !.column = Str(Age), !.operator = One, !.value = One]),
      Dict([EmptyClause EXCEPT !.operator = Str(<<"=","=">>), !.value = One]),
      Str(<<"x">>) }

RECURSIVE SeqsUpTo(_, _)
\* the sequences over S of length at most n
SeqsUpTo(S, n) ==
    IF n = 0 THEN { <<>> }
    ELSE LET shorter == SeqsUpTo(S, n - 1)
         IN shorter \cup { Append(q, e) : q \in shorter, e \in S }

FilterVals ==
    {Absent, None, Str(<<"a","l","l">>)}
      \cup { List(fs) : fs \in SeqsUpTo(Clauses, MaxFilters) }

CustomVals ==
    { Absent, None,
      Dict([EmptyCustom EXCEPT !.color_scheme = Str(<<"p","l","a","s","m","a">>)]),
      Dict([EmptyCustom EXCEPT !.show_legend = False]),
      Dict([color_scheme |-> Str(<<"v","i","r","i","d","i","s">>),
            show_legend |-> False, data_labels |-> True]) }

NoKeys == [k \in SpecKeys |-> Absent]

\* intents that vary the axes, the aggregation, the chart type and the title
AxisIntents ==
    { [NoKeys EXCEPT !.chart_type = ct, !.x_axis = x, !.y_axis = y, !.color_by = c,
                     !.aggregation = a, !.title = ti, !.y_label = yl] :
        ct \in {Absent, None, Str(<<"b","a","r">>)},
        x \in {Absent, None, Str(<<>>), Str(Age), Str(zz)},
        y \in {Absent, None, Str(Age), Str(name), Str(zz)},
        c \in {Absent, Str(name), Str(zz)},
        a \in {Absent, None, Str(<<"s","u","m">>)},
        ti \in {Absent, Str(<<"T">>)},
        yl \in {Absent, Str(<<"Y">>)} }

\* intents that vary the labels and the customization
LabelIntents ==
    { [NoKeys EXCEPT !.chart_type = Str(<<"p","i","e">>), !.x_axis = Str(name),
                     !.y_axis = y, !.x_label = xl, !.y_label = yl,
                     !.customization = cu] :
        y \in {Absent, None, Str(Age), Str(zz)},
        xl \in {Absent, Str(<<>>), Str(<<"X">>)},
        yl \in {Absent, Str(<<"Y">>)},
        cu \in CustomVals }

\* intents that vary the filters
FilterIntents ==
    { [NoKeys EXCEPT !.chart_type = Str(<<"b","a","r">>), !.x_axis = Str(name),
                     !.filters = f] :
        f \in FilterVals }

RawIntents == AxisIntents \cup LabelIntents \cup FilterIntents

-----------------------------------------------------------------------------
(* Values of the normalizer and the extraction before they have run *)

Pending == [ok |-> FALSE, error |-> "none", cause |-> "pending", spec |-> NoSpec]

NoText == <<>>
NoPayload == [ok |-> FALSE, error |-> "none", json_str |-> <<>>]


-----------------------------------------------------------------------------
(* Properties of the normalizer *)

Normalized == npc # "raw"

EqOp == <<"=","=">>
NeOp == <<"!","=">>
Mean == Str(<<"m","e","a","n">>)
Count == Str(<<"c","o","u","n","t">>)
Value == Str(<<"V","a","l","u","e">>)

\* C1: every raw intent whose x_axis is missing (key absent, null or empty
\* string) makes normalize fail and return no specification.
C1_MissingXAxisFails ==
    (Normalized /\ ~truthy(get(raw, "x_axis"))) => ~canon.ok

\* C2: every raw intent whose x_axis names a column of the metadata is
\* normalized without failure, whatever its other fields hold.
C2_ResolvableXAxisNeverFails ==
    (Normalized /\ in_list(get(raw, "x_axis"), metadata.columns)) => canon.ok

\* a returned axis field that is absent or null
AxisUnset(spec, key) == spec[key] = Absent \/ spec[key] = None

\* C3: in every returned specification x_axis names a column of the
\* metadata, and y_axis and color_by are each absent/null or name a column.
C3_AxesNameColumns ==
    (Normalized /\ canon.ok) =>
        /\ in_list(get(canon.spec, "x_axis"), metadata.columns)
        /\ AxisUnset(canon.spec, "y_axis")
             \/ in_list(canon.spec.y_axis, metadata.columns)
        /\ AxisUnset(canon.spec, "color_by")
             \/ in_list(canon.spec.color_by, metadata.columns)

\* C4: normalize is idempotent: normalizing a returned specification against
\* the same metadata succeeds and returns an equal specification, field for
\* field.
C4_Idempotent ==
    (npc = "renormalized") =>
        /\ again.ok
        /\ \A k \in SpecKeys : again.spec[k] = canon.spec[k]

\* C4 witness: a second pass over a specification whose filters, y_axis,
\* aggregation, title and labels the first pass rewrote
C4_Witness ==
    /\ npc = "renormalized"
    /\ again.ok
    /\ isinstance_list(raw.filters)
    /\ isinstance_list(canon.spec.filters)
    /\ Len(raw.filters.v) = 2
    /\ Len(canon.spec.filters.v) = 2
    /\ canon.spec.filters # raw.filters
    /\ canon.spec.title # raw.title

\* C4 witness of the axis side: the first pass cleared y_axis and filled the
\* defaults
C4_WitnessAxes ==
    /\ npc = "renormalized"
    /\ raw.y_axis = Str(zz)
    /\ canon.spec.y_axis = None
    /\ raw.aggregation = Absent
    /\ again.spec.aggregation = Count

(* The reference map-and-filter of C5, stated over the raw clause *)

RecognisedOps ==
    { <<"=">>, <<"=","=">>, <<"e","q","u","a","l","s">>, <<"i","s">>,
      <<"!","=">>, <<"n","e","q">>, <<"n","o","t"," ","e","q","u","a","l","s">>,
      <<">">>, <<"<">>, <<">","=">>, <<"<","=">> }

RefCanonical(o) ==
    CASE o \in { <<"=">>, <<"=","=">>, <<"e","q","u","a","l","s">>, <<"i","s">> } -> EqOp
      [] o \in { <<"!","=">>, <<"n","e","q">>,
                 <<"n","o","t"," ","e","q","u","a","l","s">> } -> NeOp
      [] OTHER -> o

\* the value a clause gives under the first of `keys` that holds a non-empty one
RefGiven(f, keys) ==
    LET given == {i \in DOMAIN keys : f[keys[i]] # Absent /\ truthy(f[keys[i]])}
    IN IF given = {} THEN None
       ELSE f[keys[CHOOSE i \in given : \A j \in given : i <= j]]

RefColumn(f) == RefGiven(f, <<"column", "column_name", "col", "field">>)
RefOperator(f) == RefGiven(f, <<"operator", "op", "relation", "operator_symbol">>)

\* the value of a clause: under the first of value, val, v that the clause holds
RefValue(f) ==
    LET keys == <<"value", "val", "v">>
        held == {i \in DOMAIN keys : f[keys[i]] # Absent}
    IN IF held = {} THEN None
       ELSE f[keys[CHOOSE i \in held : \A j \in held : i <= j]]

RefResolves(col, columns) ==
    /\ col.t = "str"
    /\ \E i \in DOMAIN columns : lower(columns[i]) = lower(col.v)

\* exact name first, otherwise the first column equal up to case
RefResolve(col, columns) ==
    IF \E i \in DOMAIN columns : columns[i] = col.v THEN col.v
    ELSE LET same == {i \in DOMAIN columns : lower(columns[i]) = lower(col.v)}
         IN columns[CHOOSE i \in same : \A j \in same : i <= j]

RefCarriesRecognisedOp(item) ==
    /\ item.t = "dict"
    /\ RefOperator(item.v).t = "str"
    /\ RefOperator(item.v).v \in RecognisedOps

RefKept(item, columns) ==
    /\ RefResolves(RefColumn(item.v), columns)
    /\ RefValue(item.v) # None

RefRewritten(item, columns) ==
    Dict([EmptyClause EXCEPT
            !.column = Str(RefResolve(RefColumn(item.v), columns)),
            !.operator = Str(RefCanonical(RefOperator(item.v).v)),
            !.value = RefValue(item.v)])

RefFilters(fs, columns) ==
    LET kept == SelectSeq(fs, LAMBDA item : RefKept(item, columns))
    IN [i \in 1..Len(kept) |-> RefRewritten(kept[i], columns)]

C5_InScope ==
    /\ Normalized
    /\ canon.ok
    /\ isinstance_list(raw.filters)
    /\ \A i \in DOMAIN raw.filters.v : RefCarriesRecognisedOp(raw.filters.v[i])

\* C5: for a raw filter list whose clauses all carry a recognised operator
\* or synonym, the returned filters are, in the original order, exactly the
\* clauses whose column resolves (exact match first, else case-insensitive)
\* and whose value is present, each rewritten to {resolved column, canonical
\* operator, original value}; a present value of 0 or false is kept.
C5_FiltersAreMapAndFilter ==
    C5_InScope =>
        canon.spec.filters = List(RefFilters(raw.filters.v, metadata.columns))

\* C5 witness: of two clauses one is dropped, and the kept one carries the
\* value 0, a synonym operator and a column resolved up to case
C5_Witness ==
    /\ C5_InScope
    /\ Len(raw.filters.v) = 2
    /\ Len(canon.spec.filters.v) = 1
    /\ canon.spec.filters.v[1].v.value = Zero
    /\ canon.spec.filters.v[1].v.operator = Str(EqOp)
    /\ canon.spec.filters.v[1].v.column # raw.filters.v[2].v.column

CanonicalOps ==
    { Str(EqOp), Str(NeOp), Str(<<">">>), Str(<<"<">>), Str(<<">","=">>), Str(<<"<","=">>) }

\* C6: every filter clause of a returned specification has an operator in
\* {==, !=, >, <, >=, <=}; a clause whose operator is unrecognised after
\* synonym normalization is dropped.
C6_OperatorsCanonical ==
    (Normalized /\ canon.ok /\ isinstance_list(raw.filters)) =>
        \A i \in DOMAIN canon.spec.filters.v :
            canon.spec.filters.v[i].v.operator \in CanonicalOps

\* C7: when the raw intent gives no y_label, y_label is "Value" if the
\* returned y_axis is absent (missing, null or cleared), and the y_axis name
\* if y_axis is present and valid (stated for intents whose x_axis names a
\* column, so that the specification is one normalize is meant to return).
C7_YLabelDefault ==
    (Normalized /\ canon.ok /\ raw.y_label = Absent
       /\ in_list(get(raw, "x_axis"), metadata.columns)) =>
        IF AxisUnset(canon.spec, "y_axis")
        THEN canon.spec.y_label = Value
        ELSE canon.spec.y_label = canon.spec.y_axis

CustomDefault(k) ==
    CASE k = "color_scheme" -> Str(<<"d","e","f","a","u","l","t">>)
      [] k = "show_legend" -> True
      [] k = "data_labels" -> False

\* C8: every returned specification carries a customization object with
\* all three fields set: a given field keeps its value, a missing one gets
\* its default (color_scheme=default, show_legend=true, data_labels=false).
C8_CustomizationFilled ==
    (Normalized /\ canon.ok) =>
        /\ isinstance_dict(canon.spec.customization)
        /\ \A k \in CustomKeys :
              canon.spec.customization.v[k] =
                  IF isinstance_dict(raw.customization) /\ raw.customization.v[k] # Absent
                  THEN raw.customization.v[k]
                  ELSE CustomDefault(k)

\* C9: with no aggregation in the raw intent, aggregation is mean if the
\* returned y_axis is a numerical column and count otherwise (so a cleared
\* y_axis yields count); an aggregation the raw intent gives is unchanged.
C9_AggregationDefault ==
    (Normalized /\ canon.ok) =>
        IF raw.aggregation = Absent \/ raw.aggregation = None
        THEN canon.spec.aggregation =
                 IF in_list(get(canon.spec, "y_axis"), metadata.numerical_columns)
                 THEN Mean ELSE Count
        ELSE canon.spec.aggregation = raw.aggregation

\* C9 witness: a y_axis naming a numerical column of another table is
\* cleared and the default is count
C9_Witness ==
    /\ Normalized
    /\ canon.ok
    /\ raw.aggregation = Absent
    /\ raw.y_axis = Str(Age)
    /\ canon.spec.y_axis = None
    /\ canon.spec.aggregation = Count

\* C9 witness of the numeric side: the default is mean
C9_WitnessMean ==
    /\ Normalized
    /\ canon.ok
    /\ raw.aggregation = None
    /\ canon.spec.y_axis = Str(Age)
    /\ canon.spec.aggregation = Mean

-----------------------------------------------------------------------------
(* Model bridge: extract_json_from_text.  A text is a sequence of          *)
(* characters; indices are Python's, counted from 0.                       *)

\* text[i]
char_at(txt, i) == txt[i + 1]

\* text[a:b]
slice(txt, a, b) == SubSeq(txt, a + 1, b)

\* text.find(ch): the lowest index of ch, -1 when there is none
find(txt, ch) ==
    LET at == {i \in 0..(Len(txt) - 1) : char_at(txt, i) = ch}
    IN IF at = {} THEN -1 ELSE CHOOSE i \in at : \A j \in at : i <= j

\* candidates = [i for i in (idx_brace, idx_bracket) if i != -1]
candidates(txt) == {i \in {find(txt, "{"), find(txt, "[")} : i # -1}

\* start_idx taken as max(candidates)
start_idx_max(txt) ==
    CHOOSE i \in candidates(txt) : \A j \in candidates(txt) : j <= i

\* start_idx = min(candidates)
start_idx(txt) ==
    CHOOSE i \in candidates(txt) : \A j \in candidates(txt) : i <= j

ScanEnd(e) == [end_idx |-> e, raised |-> "none"]
ScanRaise(why) == [end_idx |-> -1, raised |-> why]

RECURSIVE scan_any_closer(_, _, _)
\* scan without the check that the closing bracket is of the popped kind
scan_any_closer(txt, i, stack) ==
    IF i >= Len(txt) THEN ScanEnd(-1)
    ELSE LET ch == char_at(txt, i)
         IN IF ch = "{" \/ ch = "["
            THEN scan_any_closer(txt, i + 1, Append(stack, ch))
            ELSE IF ch = "}" \/ ch = "]"
            THEN IF stack = <<>>
                 THEN ScanRaise("unexpected closing bracket")
                 ELSE IF Len(stack) = 1
                      THEN ScanEnd(i + 1)
                      ELSE scan_any_closer(txt, i + 1, SubSeq(stack, 1, Len(stack) - 1))
            ELSE scan_any_closer(txt, i + 1, stack)

RECURSIVE scan(_, _, _)
\* the loop `for i in range(start_idx, len(text))` from index i with the
\* given stack: the end_idx it leaves, or the error it raises
scan(txt, i, stack) ==
    IF i >= Len(txt) THEN ScanEnd(-1)
    ELSE LET ch == char_at(txt, i)
         IN IF ch = "{" \/ ch = "["
            THEN scan(txt, i + 1, Append(stack, ch))
            ELSE IF ch = "}" \/ ch = "]"
            THEN IF stack = <<>>
                 THEN ScanRaise("unexpected closing bracket")
                 ELSE LET stack_pop == stack[Len(stack)]
                          rest == SubSeq(stack, 1, Len(stack) - 1)
                      IN IF (stack_pop = "{" /\ ch # "}") \/ (stack_pop = "[" /\ ch # "]")
                         THEN ScanRaise("mismatched brackets")
                         ELSE IF rest = <<>>
                              THEN ScanEnd(i + 1)
                              ELSE scan(txt, i + 1, rest)
            ELSE scan(txt, i + 1, stack)

Failed(why) == [ok |-> FALSE, error |-> why, json_str |-> <<>>]
Selected(payload, parses) ==
    [ok |-> parses, error |-> IF parses THEN "none" ELSE "JSONDecodeError",
     json_str |-> payload]

RECURSIVE brackets_are_json(_)
\* a span made of brackets alone is JSON when it is {} or [] or one such
\* value inside a one-element array
brackets_are_json(span) ==
    \/ span = <<"{", "}">>
    \/ span = <<"[", "]">>
    \/ /\ Len(span) > 2
       /\ span[1] = "["
       /\ span[Len(span)] = "]"
       /\ brackets_are_json(SubSeq(span, 2, Len(span) - 1))

\* json.loads(json_str): the answers the parser can give, TRUE for a parsed
\* value and FALSE for JSONDecodeError.  A character that is no bracket
\* stands for any text, so a span holding one may parse or not.
json_loads(span) ==
    IF \E i \in DOMAIN span : span[i] \notin {"{", "}", "[", "]"}
    THEN BOOLEAN
    ELSE {brackets_are_json(span)}

\* extract_json_from_text(text): json_str, the span handed to json.loads
\* with the parser's answer `parses`, or the ValueError raised before it
extract_json_from_text(txt, parses) ==
    IF txt = <<>> THEN Failed("empty text")
    ELSE IF candidates(txt) = {} THEN Failed("no JSON object or array found")
    ELSE LET found == scan(txt, start_idx(txt), <<>>)
         IN IF found.raised # "none" THEN Failed(found.raised)
            ELSE IF found.end_idx = -1 THEN Failed("unbalanced brackets")
            ELSE Selected(slice(txt, start_idx(txt), found.end_idx), parses)

-----------------------------------------------------------------------------
(* Inputs of the extraction: model output with prose and brackets *)

Chars == {"{", "}", "[", "]", "x"}

Texts == SeqsUpTo(Chars, MaxLen)


-----------------------------------------------------------------------------
(* Properties of the extraction *)

\* a span was selected and handed to the parser
SpanSelected == epc = "done" /\ extracted.error \in {"none", "JSONDecodeError"}

Opening == {"{", "["}
Closing == {"}", "]"}

\* the index of the first opening bracket
RefStart(txt) ==
    CHOOSE i \in 0..(Len(txt) - 1) :
        /\ char_at(txt, i) \in Opening
        /\ \A j \in 0..(i - 1) : char_at(txt, j) \notin Opening

\* how many brackets opened in txt[a..b] are still open after b
RefOpen(txt, a, b) ==
    Cardinality({i \in a..b : char_at(txt, i) \in Opening})
      - Cardinality({i \in a..b : char_at(txt, i) \in Closing})

\* the brackets opened from the first opening bracket are all closed somewhere
RefHasEnd(txt) ==
    /\ \E i \in 0..(Len(txt) - 1) : char_at(txt, i) \in Opening
    /\ \E i \in RefStart(txt)..(Len(txt) - 1) : RefOpen(txt, RefStart(txt), i) = 0

\* the first index from the start at which no bracket is open any more
RefEnd(txt) ==
    CHOOSE i \in RefStart(txt)..(Len(txt) - 1) :
        /\ RefOpen(txt, RefStart(txt), i) = 0
        /\ \A j \in RefStart(txt)..(i - 1) : RefOpen(txt, RefStart(txt), j) # 0

RECURSIVE RefCancels(_)
\* a sequence of brackets that can be erased by deleting adjacent {} and []
RefCancels(bs) ==
    \/ bs = <<>>
    \/ \E i \in 1..(Len(bs) - 1) :
          /\ <<bs[i], bs[i + 1]>> \in { <<"{", "}">>, <<"[", "]">> }
          /\ RefCancels(SubSeq(bs, 1, i - 1) \o SubSeq(bs, i + 2, Len(bs)))

\* every bracket of the span is closed by one of its own kind, in nesting order
RefWellNested(span) ==
    RefCancels(SelectSeq(span, LAMBDA c : c \in Opening \cup Closing))

\* C10: the extracted payload is the substring from the first '{' or '[' to
\* the first character at which the brackets opened from there are all
\* closed; the text before that start and after that end has no effect:
\* the payload alone, and the text cut at either side, give the same payload.
\* A text whose span from the first opening bracket is well nested always
\* has its span selected.
C10_BalancedSpan ==
    /\ ( /\ epc = "done"
         /\ RefHasEnd(text)
         /\ RefWellNested(slice(text, RefStart(text), RefEnd(text) + 1)) )
       => SpanSelected
    /\ SpanSelected =>
        /\ RefHasEnd(text)
        /\ RefWellNested(extracted.json_str)
        /\ extracted.json_str = slice(text, RefStart(text), RefEnd(text) + 1)
        /\ \A a \in {0, RefStart(text)}, b \in {RefEnd(text) + 1, Len(text)} :
              extract_json_from_text(slice(text, a, b), TRUE).json_str
                  = extracted.json_str

\* C10 witness: prose before the payload, a nested bracket inside it, and a
\* further bracket after it
C10_Witness ==
    /\ SpanSelected
    /\ RefStart(text) > 0
    /\ RefEnd(text) + 1 < Len(text)
    /\ Len(extracted.json_str) = 2
    /\ \E i \in (RefEnd(text) + 1)..(Len(text) - 1) :
          char_at(text, i) \in Opening \cup Closing

\* C10 witness of nesting: the payload holds a bracket pair inside another
C10_WitnessNested ==
    /\ SpanSelected
    /\ Len(extracted.json_str) = 4
    /\ extracted.json_str[2] \in Opening
    /\ extracted.json_str[1] # extracted.json_str[2]
    /\ Len(text) > 4

RECURSIVE RefResidue(_)
\* what is left of a sequence of brackets once every adjacent {} and [] has
\* been deleted, again and again
RefResidue(bs) ==
    IF \E i \in 1..(Len(bs) - 1) :
          <<bs[i], bs[i + 1]>> \in { <<"{", "}">>, <<"[", "]">> }
    THEN LET i == CHOOSE k \in 1..(Len(bs) - 1) :
                      <<bs[k], bs[k + 1]>> \in { <<"{", "}">>, <<"[", "]">> }
         IN RefResidue(SubSeq(bs, 1, i - 1) \o SubSeq(bs, i + 2, Len(bs)))
    ELSE bs

RefHasOpening(txt) == \E i \in 0..(Len(txt) - 1) : char_at(txt, i) \in Opening

\* the last index the scan can reach: where the brackets opened from the
\* first one are all closed, or the end of the text
RefLast(txt) == IF RefHasEnd(txt) THEN RefEnd(txt) ELSE Len(txt) - 1

\* from the first opening bracket on, a closing bracket meets an innermost
\* open bracket of the other kind before the open brackets are all closed
RefMismatched(txt) ==
    /\ RefHasOpening(txt)
    /\ LET bs == SelectSeq(slice(txt, RefStart(txt), RefLast(txt) + 1),
                           LAMBDA c : c \in Opening \cup Closing)
       IN \E i \in DOMAIN RefResidue(bs) : RefResidue(bs)[i] \in Closing

\* the ValueErrors extract_json_from_text raises before it parses anything
MalformedErrors ==
    {"empty text", "no JSON object or array found", "unexpected closing bracket",
     "mismatched brackets", "unbalanced brackets"}

NoPayloadReturned ==
    /\ ~extracted.ok
    /\ extracted.json_str = <<>>
    /\ extracted.error \in MalformedErrors

\* C11: extraction fails with a malformed-output error and returns no
\* payload for every text that has no '{' or '[', for every text in which a
\* closing bracket's kind differs from the innermost open bracket before the
\* open brackets are all closed, and for every text whose brackets are still
\* open when the text ends.
C11_MalformedFails ==
    (epc = "done" /\ (~RefHasOpening(text) \/ RefMismatched(text) \/ ~RefHasEnd(text)))
        => NoPayloadReturned

\* C11 witness: a closing bracket of the wrong kind, after prose and a
\* correctly closed inner pair
C11_Witness ==
    /\ epc = "done"
    /\ RefMismatched(text)
    /\ RefHasEnd(text)
    /\ RefStart(text) > 0
    /\ Len(text) = 5
    /\ extracted.error = "mismatched brackets"

\* C11 witness of the open end: the text ends with a bracket still open
C11_WitnessOpenEnd ==
    /\ epc = "done"
    /\ RefHasOpening(text)
    /\ ~RefMismatched(text)
    /\ ~RefHasEnd(text)
    /\ extracted.error = "unbalanced brackets"

\* a closing bracket that no earlier opening bracket of the text matches
RefUnmatchedClosing(txt) ==
    \E j \in 0..(Len(txt) - 1) :
        /\ char_at(txt, j) \in Closing
        /\ RefOpen(txt, 0, j) < 0

\* C12: extraction fails with a malformed-output error, and returns no
\* payload, whenever a closing bracket appears in the text with no matching
\* open bracket, also when it precedes the first opening bracket.
C12_UnmatchedClosingFails ==
    (epc = "done" /\ RefUnmatchedClosing(text)) => NoPayloadReturned

-----------------------------------------------------------------------------
(* Part 3: the rendering engine, ChartGenerator (services/chart_generator.py) *)
(*                                                                         *)
(* A table (pandas DataFrame) is a record of its column labels, the dtype   *)
(* of every column ("number" or "object") and its rows; a cell is a number  *)
(* n/d, a string or NaN.                                                   *)

NumCell(i) == [k |-> "num", n |-> i, d |-> 1, s |-> <<>>]
Ratio(i, j) == [k |-> "num", n |-> i, d |-> j, s |-> <<>>]
StrCell(chars) == [k |-> "str", n |-> 0, d |-> 1, s |-> chars]
NaN == [k |-> "nan", n |-> 0, d |-> 1, s |-> <<>>]

DataFrame(columns, dtypes, rows) == [columns |-> columns, dtypes |-> dtypes, rows |-> rows]

\* c in df.columns
in_columns(c, frame) == \E i \in DOMAIN frame.columns : frame.columns[i] = c

\* position of the (first) column labelled c
loc(frame, c) == CHOOSE i \in DOMAIN frame.columns :
                    /\ frame.columns[i] = c
                    /\ \A j \in 1..(i - 1) : frame.columns[j] # c

\* df.empty: no rows or no columns
empty(frame) == Len(frame.rows) = 0 \/ Len(frame.columns) = 0

\* two columns of the frame carry the same label
duplicated(frame) ==
    \E i, j \in DOMAIN frame.columns : i # j /\ frame.columns[i] = frame.columns[j]

Digits == <<"0","1","2","3","4","5","6","7","8","9">>

RECURSIVE int_of(_)
\* the integer a string of decimal digits denotes
int_of(digits) ==
    LET digit_val(c) == (CHOOSE i \in DOMAIN Digits : Digits[i] = c) - 1
    IN IF digits = <<>> THEN 0
       ELSE 10 * int_of(SubSeq(digits, 1, Len(digits) - 1)) + digit_val(digits[Len(digits)])

\* a string that pd.to_numeric accepts: decimal digits, blanks around them
numeric_string(chars) ==
    /\ strip(chars) # <<>>
    /\ \A i \in DOMAIN strip(chars) : \E d \in DOMAIN Digits : Digits[d] = strip(chars)[i]

\* one element of `series == value`, value a JSON scalar
cell_eq(cell, value) ==
    CASE cell.k = "nan" -> FALSE
      [] cell.k = "num" ->
            CASE value.t = "num" -> cell.n = cell.d * int_of(value.v)
              [] value.t = "bool" -> cell.n = cell.d * (IF value = True THEN 1 ELSE 0)
              [] OTHER -> FALSE
      [] cell.k = "str" -> value.t = "str" /\ cell.s = value.v

\* df[df[column] == value]
where_eq(frame, column, value) ==
    [frame EXCEPT !.rows =
        SelectSeq(frame.rows, LAMBDA r : cell_eq(r[loc(frame, column)], value))]

\* apply_filter keeping the matching rows whatever the operator is
apply_filter_any_operator(filtered_df, filter_item) ==
    LET column == get(filter_item.v, "column")
        value == get(filter_item.v, "value")
    IN IF ~truthy(column) \/ ~(isinstance_str(column) /\ in_columns(column.v, filtered_df))
       THEN filtered_df
       ELSE where_eq(filtered_df, column.v, value)

\* one iteration of `for filter_item in chart_spec['filters']`
apply_filter(filtered_df, filter_item) ==
    LET column == get(filter_item.v, "column")
        operator == get(filter_item.v, "operator")
        value == get(filter_item.v, "value")
    IN IF ~truthy(column) \/ ~(isinstance_str(column) /\ in_columns(column.v, filtered_df))
       THEN filtered_df
       ELSE IF operator = Str(<<"=","=">>)
            THEN where_eq(filtered_df, column.v, value)
            ELSE filtered_df

RECURSIVE apply_filters(_, _)
\* the filter loop of generate_chart over the list of clauses
apply_filters(filtered_df, filters) ==
    IF filters = <<>> THEN filtered_df
    ELSE apply_filters(apply_filter(filtered_df, Head(filters)), Tail(filters))

NoFrame == DataFrame(<<>>, <<>>, <<>>)

\* a call that raised, and a call that returned a frame
Raise(cause) == [ok |-> FALSE, error |-> cause, df |-> NoFrame]
Return(frame) == [ok |-> TRUE, error |-> "none", df |-> frame]

RECURSIVE positions(_, _)
\* the column positions df[labels] selects, label by label
positions(frame, labels) ==
    IF labels = <<>> THEN <<>>
    ELSE SelectSeq([i \in DOMAIN frame.columns |-> i],
                   LAMBDA i : frame.columns[i] = Head(labels))
         \o positions(frame, Tail(labels))

\* the frame made of the columns at the given positions
take(frame, ps) ==
    DataFrame([i \in DOMAIN ps |-> frame.columns[ps[i]]],
              [i \in DOMAIN ps |-> frame.dtypes[ps[i]]],
              [r \in DOMAIN frame.rows |-> [i \in DOMAIN ps |-> frame.rows[r][ps[i]]]])

\* df.dropna(axis=1, how='all')
dropna_columns(frame) ==
    take(frame, SelectSeq([i \in DOMAIN frame.columns |-> i],
                          LAMBDA i : \E r \in DOMAIN frame.rows : frame.rows[r][i] # NaN))

\* df.dropna(how='all')
dropna_rows(frame) ==
    [frame EXCEPT !.rows =
        SelectSeq(frame.rows, LAMBDA r : \E i \in DOMAIN r : r[i] # NaN)]

\* df.select_dtypes(include=['number'])
select_number(frame) ==
    take(frame, SelectSeq([i \in DOMAIN frame.columns |-> i],
                          LAMBDA i : frame.dtypes[i] = "number"))

\* _prepare_data(df, columns_needed, numeric_only)
_prepare_data(frame, columns_needed, numeric_only) ==
    LET cols_available == SelectSeq(columns_needed, LAMBDA c : in_columns(c, frame))
        df_prep == dropna_rows(dropna_columns(take(frame, positions(frame, cols_available))))
    IN IF cols_available = <<>> THEN Raise("None of the required columns found")
       ELSE IF numeric_only
            THEN IF empty(select_number(df_prep))
                 THEN Raise("No numeric columns found")
                 ELSE Return(select_number(df_prep))
            ELSE IF empty(df_prep)
                 THEN Raise("Data is empty after preparation")
                 ELSE Return(df_prep)

\* pd.to_numeric(cell, errors='coerce')
to_numeric(cell) ==
    IF cell.k = "str"
    THEN IF numeric_string(cell.s) THEN NumCell(int_of(strip(cell.s))) ELSE NaN
    ELSE cell

\* _ensure_numeric(df, column)
_ensure_numeric(frame, column) ==
    IF ~in_columns(column, frame) THEN Raise("Column not found")
    ELSE IF frame.dtypes[loc(frame, column)] # "object" THEN Return(frame)
    ELSE LET at == loc(frame, column)
             coerced == [r \in DOMAIN frame.rows |->
                            [frame.rows[r] EXCEPT ![at] = to_numeric(@)]]
             kept == SelectSeq(coerced, LAMBDA r : r[at] # NaN)
         IN IF kept = <<>> THEN Raise("Cannot convert column to numeric")
            ELSE Return([frame EXCEPT !.dtypes[at] = "number", !.rows = kept])

\* _get_columns_for_chart(spec)
_get_columns_for_chart(spec) ==
    (IF truthy(get(spec, "x_axis")) THEN <<spec.x_axis.v>> ELSE <<>>)
    \o (IF truthy(get(spec, "y_axis")) THEN <<spec.y_axis.v>> ELSE <<>>)
    \o (IF truthy(get(spec, "color_by")) THEN <<spec.color_by.v>> ELSE <<>>)

\* the characters of the model in code-point order
CodePoints == <<" ">> \o Digits \o UpperCase \o LowerCase

RECURSIVE str_lt(_, _)
\* a < b for two Python strings
str_lt(a, b) ==
    LET ord(c) == CHOOSE i \in DOMAIN CodePoints : CodePoints[i] = c
    IN IF b = <<>> THEN FALSE
       ELSE IF a = <<>> THEN TRUE
       ELSE IF Head(a) = Head(b) THEN str_lt(Tail(a), Tail(b))
       ELSE ord(Head(a)) < ord(Head(b))

\* a < b for two cells that are not NaN (a number sorts before a string)
cell_lt(a, b) ==
    CASE a.k = "num" /\ b.k = "num" -> a.n * b.d < b.n * a.d
      [] a.k = "str" /\ b.k = "str" -> str_lt(a.s, b.s)
      [] OTHER -> a.k = "num" /\ b.k = "str"

RECURSIVE key_lt(_, _)
\* a < b for two group keys (tuples of cells of one length)
key_lt(a, b) ==
    IF a = <<>> THEN FALSE
    ELSE IF Head(a) = Head(b) THEN key_lt(Tail(a), Tail(b))
    ELSE cell_lt(Head(a), Head(b))

RECURSIVE sorted(_)
\* the keys of a set in ascending order (groupby sorts its groups)
sorted(keys) ==
    IF keys = {} THEN <<>>
    ELSE LET least == CHOOSE a \in keys : \A b \in keys \ {a} : key_lt(a, b)
         IN <<least>> \o sorted(keys \ {least})

RECURSIVE sum_n(_)
\* the sum of a sequence of whole-number cells
sum_n(cells) == IF cells = <<>> THEN 0 ELSE Head(cells).n + sum_n(Tail(cells))

RECURSIVE concat(_)
\* the sum of a sequence of string cells
concat(cells) == IF cells = <<>> THEN <<>> ELSE Head(cells).s \o concat(Tail(cells))

\* agg_map.get(agg): the aggregations _apply_aggregation knows
agg_map == {<<"s","u","m">>, <<"m","e","a","n">>, <<"c","o","u","n","t">>,
            <<"m","i","n">>, <<"m","a","x">>}

\* grouped.aggregate(func) of one group: NaN cells are skipped
aggregate(func, cells, dtype) ==
    LET present == SelectSeq(cells, LAMBDA c : c # NaN)
        least_of(cs) ==
            cs[CHOOSE i \in DOMAIN cs : \A j \in DOMAIN cs : ~cell_lt(cs[j], cs[i])]
        greatest_of(cs) ==
            cs[CHOOSE i \in DOMAIN cs : \A j \in DOMAIN cs : ~cell_lt(cs[i], cs[j])]
    IN CASE func = <<"s","u","m">> ->
              IF dtype = "number" \/ present = <<>> THEN NumCell(sum_n(present))
              ELSE StrCell(concat(present))
         [] func = <<"m","e","a","n">> ->
              IF present = <<>> THEN NaN ELSE Ratio(sum_n(present), Len(present))
         [] func = <<"m","i","n">> ->
              IF present = <<>> THEN NaN ELSE least_of(present)
         [] func = <<"m","a","x">> ->
              IF present = <<>> THEN NaN ELSE greatest_of(present)

\* _apply_aggregation with the count of a group taken as the number of its
\* non-null y values (grouped.count()) instead of its size
_apply_aggregation_count_values(frame, agg, x_axis, y_axis, color_by) ==
    LET by == IF truthy(color_by) /\ in_columns(color_by.v, frame)
              THEN <<x_axis, color_by.v>> ELSE <<x_axis>>
        at == [i \in DOMAIN by |-> loc(frame, by[i])]
        key(r) == [i \in DOMAIN at |-> r[at[i]]]
        keyed == SelectSeq(frame.rows, LAMBDA r : \A i \in DOMAIN at : r[at[i]] # NaN)
        keys == sorted({key(keyed[r]) : r \in DOMAIN keyed})
        y == loc(frame, y_axis)
        ys(k) == LET group == SelectSeq(keyed, LAMBDA r : key(r) = k)
                 IN [r \in DOMAIN group |-> group[r][y]]
        reduced(k) == IF agg = <<"c","o","u","n","t">>
                      THEN NumCell(Len(SelectSeq(ys(k), LAMBDA c : c # NaN)))
                      ELSE aggregate(agg, ys(k), frame.dtypes[y])
    IN IF agg \notin agg_map THEN Raise("Unsupported aggregation")
       ELSE IF ~in_columns(x_axis, frame) THEN Raise("X-axis column not found")
       ELSE IF ~in_columns(y_axis, frame) THEN Raise("Y-axis column not found")
       ELSE IF \E i, j \in DOMAIN (by \o <<y_axis>>) :
                  i # j /\ (by \o <<y_axis>>)[i] = (by \o <<y_axis>>)[j]
            THEN Raise("cannot insert, already exists")
       ELSE IF agg = <<"m","e","a","n">> /\ frame.dtypes[y] = "object"
            THEN Raise("agg function failed")
       ELSE Return(DataFrame(by \o <<y_axis>>,
                             [i \in DOMAIN at |-> frame.dtypes[at[i]]]
                               \o <<IF agg \in {<<"s","u","m">>, <<"m","i","n">>, <<"m","a","x">>}
                                    THEN frame.dtypes[y] ELSE "number">>,
                             [i \in DOMAIN keys |-> keys[i] \o <<reduced(keys[i])>>]))

\* _apply_aggregation(df, agg, x_axis, y_axis, color_by)
_apply_aggregation(frame, agg, x_axis, y_axis, color_by) ==
    LET by == IF truthy(color_by) /\ in_columns(color_by.v, frame)
              THEN <<x_axis, color_by.v>> ELSE <<x_axis>>
        at == [i \in DOMAIN by |-> loc(frame, by[i])]
        key(r) == [i \in DOMAIN at |-> r[at[i]]]
        keyed == SelectSeq(frame.rows, LAMBDA r : \A i \in DOMAIN at : r[at[i]] # NaN)
        keys == sorted({key(keyed[r]) : r \in DOMAIN keyed})
        y == loc(frame, y_axis)
        ys(k) == LET group == SelectSeq(keyed, LAMBDA r : key(r) = k)
                 IN [r \in DOMAIN group |-> group[r][y]]
        reduced(k) == IF agg = <<"c","o","u","n","t">>
                      THEN NumCell(Len(ys(k)))
                      ELSE aggregate(agg, ys(k), frame.dtypes[y])
    IN IF agg \notin agg_map THEN Raise("Unsupported aggregation")
       ELSE IF ~in_columns(x_axis, frame) THEN Raise("X-axis column not found")
       ELSE IF ~in_columns(y_axis, frame) THEN Raise("Y-axis column not found")
       ELSE IF \E i, j \in DOMAIN (by \o <<y_axis>>) :
                  i # j /\ (by \o <<y_axis>>)[i] = (by \o <<y_axis>>)[j]
            THEN Raise("cannot insert, already exists")
       ELSE IF agg = <<"m","e","a","n">> /\ frame.dtypes[y] = "object"
            THEN Raise("agg function failed")
       ELSE Return(DataFrame(by \o <<y_axis>>,
                             [i \in DOMAIN at |-> frame.dtypes[at[i]]]
                               \o <<IF agg \in {<<"s","u","m">>, <<"m","i","n">>, <<"m","a","x">>}
                                    THEN frame.dtypes[y] ELSE "number">>,
                             [i \in DOMAIN keys |-> keys[i] \o <<reduced(keys[i])>>]))

\* a figure: the frame handed to plotly express and the labels it plots
\* (<<>> for an argument that is None); a builder that raised has none
Figure(frame, x, y, color) ==
    [ok |-> TRUE, error |-> "none", df |-> frame, x |-> x, y |-> y, color |-> color,
     colorscale |-> <<>>, showlegend |-> TRUE, texttemplate |-> FALSE]
NoFigure(cause) ==
    [ok |-> FALSE, error |-> cause, df |-> NoFrame, x |-> <<>>, y |-> <<>>, color |-> <<>>,
     colorscale |-> <<>>, showlegend |-> TRUE, texttemplate |-> FALSE]

\* the label of an axis field of the spec, <<>> when it is not set
label(spec, key) == IF truthy(get(spec, key)) THEN spec[key].v ELSE <<>>

\* px.<chart>(plot_df, x=..., y=..., color=...): plotly express raises when
\* an argument names no column; whether it takes a frame with a duplicated
\* label depends on the plotly build (plotly_accepts)
px(plot_df, x, y, color, plotly_accepts) ==
    IF \E c \in {x, y, color} : c # <<>> /\ ~in_columns(c, plot_df)
    THEN NoFigure("not the name of a column")
    ELSE IF duplicated(plot_df) /\ ~plotly_accepts
    THEN NoFigure("duplicate column names")
    ELSE Figure(plot_df, x, y, color)

\* color=color_by if color_by and color_by in plot_df.columns else None
color_arg(color_by, plot_df) ==
    IF color_by # <<>> /\ in_columns(color_by, plot_df) THEN color_by ELSE <<>>

RECURSIVE by_frequency(_, _)
\* the distinct values in descending order of their counts, a tie keeping
\* the order of first appearance
by_frequency(values, cells) ==
    IF values = <<>> THEN <<>>
    ELSE LET n(v) == Len(SelectSeq(cells, LAMBDA c : c = v))
             first == CHOOSE i \in DOMAIN values :
                         /\ \A j \in DOMAIN values : n(values[j]) <= n(values[i])
                         /\ \A j \in 1..(i - 1) : n(values[j]) < n(values[i])
         IN <<values[first]>>
            \o by_frequency(SelectSeq(values, LAMBDA v : v # values[first]), cells)

\* plot_df[x_axis].value_counts().reset_index() with columns [x_axis, 'count']
value_counts(plot_df, x_axis) ==
    LET at == loc(plot_df, x_axis)
        cells == SelectSeq([r \in DOMAIN plot_df.rows |-> plot_df.rows[r][at]],
                           LAMBDA c : c # NaN)
        distinct == SelectSeq([i \in DOMAIN cells |-> i],
                              LAMBDA i : \A j \in 1..(i - 1) : cells[j] # cells[i])
        values == by_frequency([i \in DOMAIN distinct |-> cells[distinct[i]]], cells)
    IN DataFrame(<<x_axis, <<"c","o","u","n","t">> >>,
                 <<plot_df.dtypes[at], "number">>,
                 [i \in DOMAIN values |->
                    <<values[i], NumCell(Len(SelectSeq(cells, LAMBDA c : c = values[i])))>>])

\* _create_bar_chart(df, spec)
_create_bar_chart(frame, spec, plotly_accepts) ==
    LET x_axis == label(spec, "x_axis")
        y_axis == label(spec, "y_axis")
        color_by == label(spec, "color_by")
    IN IF x_axis = <<>> THEN NoFigure("Bar chart requires x_axis")
       ELSE IF y_axis # <<>>
       THEN LET plot_df == _prepare_data(frame, <<x_axis, y_axis>>, FALSE)
            IN IF ~plot_df.ok THEN NoFigure(plot_df.error)
               ELSE px(plot_df.df, x_axis, y_axis, color_arg(color_by, plot_df.df),
                       plotly_accepts)
       ELSE LET plot_df == _prepare_data(frame, <<x_axis>>, FALSE)
            IN IF ~plot_df.ok THEN NoFigure(plot_df.error)
               ELSE IF duplicated(plot_df.df) THEN NoFigure("Length mismatch")
               ELSE px(value_counts(plot_df.df, x_axis), <<"c","o","u","n","t">>, x_axis,
                       <<>>, plotly_accepts)

\* _create_line_chart and _create_scatter_chart(df, spec): the two builders
\* differ in the trace they draw only
_create_line_chart(frame, spec, plotly_accepts) ==
    LET x_axis == label(spec, "x_axis")
        y_axis == label(spec, "y_axis")
        color_by == label(spec, "color_by")
        cols_needed == <<x_axis, y_axis>> \o (IF color_by # <<>> THEN <<color_by>> ELSE <<>>)
        plot_df == _prepare_data(frame, cols_needed, FALSE)
    IN IF x_axis = <<>> \/ y_axis = <<>> THEN NoFigure("requires both x_axis and y_axis")
       ELSE IF ~plot_df.ok THEN NoFigure(plot_df.error)
       ELSE px(plot_df.df, x_axis, y_axis, color_arg(color_by, plot_df.df), plotly_accepts)

\* _create_pie_chart(df, spec)
_create_pie_chart(frame, spec, plotly_accepts) ==
    LET x_axis == label(spec, "x_axis")
        plot_df == _prepare_data(frame, <<x_axis>>, FALSE)
        at == loc(plot_df.df, x_axis)
        keyed == SelectSeq(plot_df.df.rows, LAMBDA r : r[at] # NaN)
        keys == sorted({ <<keyed[r][at]>> : r \in DOMAIN keyed })
        pie_data == DataFrame(<<x_axis, <<"c","o","u","n","t">> >>,
                              <<plot_df.df.dtypes[at], "number">>,
                              [i \in DOMAIN keys |->
                                 keys[i] \o <<NumCell(Len(SelectSeq(keyed,
                                                 LAMBDA r : <<r[at]>> = keys[i])))>>])
    IN IF x_axis = <<>> THEN NoFigure("Pie chart requires x_axis")
       ELSE IF ~plot_df.ok THEN NoFigure(plot_df.error)
       ELSE IF duplicated(plot_df.df) THEN NoFigure("Grouper not 1-dimensional")
       ELSE IF x_axis = <<"c","o","u","n","t">> THEN NoFigure("cannot insert, already exists")
       ELSE px(pie_data, x_axis, <<"c","o","u","n","t">>, <<>>, plotly_accepts)

\* _create_heatmap(df, spec): the figure holds the numeric frame whose
\* correlation matrix is drawn
_create_heatmap(frame, spec, plotly_accepts) ==
    LET numeric_df == _prepare_data(frame, frame.columns, TRUE)
    IN IF ~numeric_df.ok THEN NoFigure(numeric_df.error)
       ELSE IF Len(numeric_df.df.columns) < 2
       THEN NoFigure("Heatmap requires at least 2 numeric columns")
       ELSE Figure(numeric_df.df, <<>>, <<>>, <<>>)

\* _create_area_chart(df, spec)
_create_area_chart(frame, spec, plotly_accepts) ==
    LET x_axis == label(spec, "x_axis")
        y_axis == label(spec, "y_axis")
        plot_df == _prepare_data(frame, <<x_axis, y_axis>>, FALSE)
    IN IF x_axis = <<>> \/ y_axis = <<>> THEN NoFigure("requires both x_axis and y_axis")
       ELSE IF ~plot_df.ok THEN NoFigure(plot_df.error)
       ELSE px(plot_df.df, x_axis, y_axis, <<>>, plotly_accepts)

\* _create_histogram(df, spec)
_create_histogram(frame, spec, plotly_accepts) ==
    LET x_axis == label(spec, "x_axis")
        plot_df == _prepare_data(frame, <<x_axis>>, FALSE)
        converted == IF plot_df.df.dtypes[loc(plot_df.df, x_axis)] = "object"
                     THEN _ensure_numeric(plot_df.df, x_axis)
                     ELSE plot_df
        numeric_cols == select_number(converted.df).columns
    IN IF x_axis = <<>> THEN NoFigure("Histogram requires x_axis")
       ELSE IF ~plot_df.ok THEN NoFigure(plot_df.error)
       ELSE IF duplicated(plot_df.df) THEN NoFigure("DataFrame has no attribute dtype")
       ELSE IF ~converted.ok THEN NoFigure(converted.error)
       ELSE IF converted.df.dtypes[loc(converted.df, x_axis)] # "number"
       THEN IF numeric_cols # <<>>
            THEN px(converted.df, numeric_cols[1], <<>>, <<>>, plotly_accepts)
            ELSE NoFigure("not numeric and no numeric columns found in data")
       ELSE px(converted.df, x_axis, <<>>, <<>>, plotly_accepts)

\* _create_box_chart(df, spec): the category axis is read from color_by
_create_box_chart(frame, spec, plotly_accepts) ==
    LET x_axis == label(spec, "color_by")
        y_axis == label(spec, "y_axis")
        cols_needed == <<y_axis>> \o (IF x_axis # <<>> THEN <<x_axis>> ELSE <<>>)
        plot_df == _prepare_data(frame, cols_needed, FALSE)
    IN IF y_axis = <<>> THEN NoFigure("Box chart requires y_axis")
       ELSE IF ~plot_df.ok THEN NoFigure(plot_df.error)
       ELSE px(plot_df.df, color_arg(x_axis, plot_df.df), y_axis, <<>>, plotly_accepts)

\* _apply_customizations(fig, customization): whether update_traces takes a
\* marker colorscale or a text template for the traces of the figure
\* depends on the trace type and the plotly build (plotly_accepts)
_apply_customizations(fig, customization, plotly_accepts) ==
    IF ~isinstance_dict(customization) THEN NoFigure("AttributeError")
    ELSE LET colorscale_map_get(c) ==
                 CASE c = <<"d","e","f","a","u","l","t">> -> <<>>
                   [] c = <<"c","o","o","l","w","a","r","m">> -> <<"R","d","B","u">>
                   [] OTHER -> c
             cs == get(customization.v, "color_scheme")
             plotly_colorscale == IF truthy(cs) THEN colorscale_map_get(cs.v) ELSE <<>>
             hide == ~truthy(get_default(customization.v, "show_legend", True))
             labels == truthy(get(customization.v, "data_labels"))
         IN IF (plotly_colorscale # <<>> \/ labels) /\ ~plotly_accepts
            THEN NoFigure("Invalid property")
            ELSE [fig EXCEPT !.colorscale = plotly_colorscale,
                             !.showlegend = ~hide,
                             !.texttemplate = labels]

\* the keys of self.chart_functions
chart_functions ==
    { <<"b","a","r">>, <<"l","i","n","e">>, <<"s","c","a","t","t","e","r">>,
      <<"p","i","e">>, <<"h","e","a","t","m","a","p">>, <<"a","r","e","a">>,
      <<"h","i","s","t","o","g","r","a","m">>, <<"b","o","x">> }

\* self.chart_functions[chart_type](filtered_df, chart_spec)
chart_function(chart_type, frame, spec, plotly_accepts) ==
    CASE chart_type = <<"b","a","r">> -> _create_bar_chart(frame, spec, plotly_accepts)
      [] chart_type \in {<<"l","i","n","e">>, <<"s","c","a","t","t","e","r">>} ->
            _create_line_chart(frame, spec, plotly_accepts)
      [] chart_type = <<"p","i","e">> -> _create_pie_chart(frame, spec, plotly_accepts)
      [] chart_type = <<"h","e","a","t","m","a","p">> ->
            _create_heatmap(frame, spec, plotly_accepts)
      [] chart_type = <<"a","r","e","a">> -> _create_area_chart(frame, spec, plotly_accepts)
      [] chart_type = <<"h","i","s","t","o","g","r","a","m">> ->
            _create_histogram(frame, spec, plotly_accepts)
      [] chart_type = <<"b","o","x">> -> _create_box_chart(frame, spec, plotly_accepts)

\* the outcome of generate_chart: the returned chart, or the Exception every
\* failure of the body is wrapped in, with its cause. filtered_df is the
\* frame the aggregation step was handed and builder_df the frame the
\* builder was handed (NoFrame when the step was not reached).
RenderError(cause, filtered_df, builder_df) ==
    [ok |-> FALSE, error |-> "Exception", cause |-> cause, fig |-> NoFigure(cause),
     filtered_df |-> filtered_df, builder_df |-> builder_df]
RenderedChart(fig, filtered_df, builder_df) ==
    [ok |-> TRUE, error |-> "none", cause |-> "none", fig |-> fig,
     filtered_df |-> filtered_df, builder_df |-> builder_df]

\* iterating chart_spec['filters'] and calling .get on an item raises
filters_raise(filters) ==
    /\ truthy(filters)
    /\ \/ ~isinstance_list(filters)
       \/ \E i \in DOMAIN filters.v : ~isinstance_dict(filters.v[i])

\* lines 103-115: filtered_df after the filter loop
after_filters(frame, spec) ==
    IF truthy(get(spec, "filters")) THEN apply_filters(frame, spec.filters.v) ELSE frame

\* lines 120-130: filtered_df after the aggregation step, a failed
\* aggregation leaving it as it was
after_aggregation(filtered_df, spec) ==
    LET agg == get_default(spec, "aggregation", Str(<<"n","o","n","e">>))
        x_axis == get(spec, "x_axis")
        y_axis == get(spec, "y_axis")
        color_by == get(spec, "color_by")
        agg_df == _apply_aggregation(filtered_df, agg.v, x_axis.v, y_axis.v, color_by)
    IN IF truthy(agg) /\ agg # Str(<<"n","o","n","e">>) /\ truthy(y_axis) /\ truthy(x_axis)
       THEN IF agg_df.ok THEN agg_df.df ELSE filtered_df
       ELSE filtered_df

\* generate_chart(df, chart_spec)
generate_chart(frame, spec, plotly_accepts) ==
    LET chart_type == get_default(spec, "chart_type", Str(<<>>))
        filtered_df == after_filters(frame, spec)
        aggregated == after_aggregation(filtered_df, spec)
        cols_needed == _get_columns_for_chart(spec)
        prepared == IF cols_needed # <<>> THEN _prepare_data(aggregated, cols_needed, FALSE)
                    ELSE Return(aggregated)
        fig == chart_function(lower(chart_type.v), prepared.df, spec, plotly_accepts)
        custom == _apply_customizations(fig, get_default(spec, "customization",
                                                         Dict(EmptyCustom)), plotly_accepts)
    IN IF ~isinstance_str(chart_type) THEN RenderError("AttributeError", NoFrame, NoFrame)
       ELSE IF lower(chart_type.v) \notin chart_functions
       THEN RenderError("Unsupported chart type", NoFrame, NoFrame)
       ELSE IF empty(frame)
       THEN RenderError("Input dataframe is empty", NoFrame, NoFrame)
       ELSE IF filters_raise(get(spec, "filters"))
       THEN RenderError("AttributeError", NoFrame, NoFrame)
       ELSE IF empty(filtered_df)
       THEN RenderError("No data matches the specified filters", NoFrame, NoFrame)
       ELSE IF ~prepared.ok THEN RenderError(prepared.error, filtered_df, NoFrame)
       ELSE IF ~fig.ok THEN RenderError(fig.error, filtered_df, prepared.df)
       ELSE IF ~custom.ok THEN RenderError(custom.error, filtered_df, prepared.df)
       ELSE RenderedChart(custom, filtered_df, prepared.df)

-----------------------------------------------------------------------------
(* Inputs of the rendering engine: tables and chart specifications *)

city == <<"c","i","t","y">>
code == <<"c","o","d","e">>

\* the tables: People has a text column, a numeric column with a null and a
\* second text column, and a last row without a name; Readings has a text
\* column that converts in part next to a numeric column; Words has text
\* columns only; Sparse has a numeric column of nulls; Blank has no rows
Tables ==
    LET a == StrCell(<<"a">>)
        b == StrCell(<<"b">>)
        p == StrCell(<<"p">>)
        q == StrCell(<<"q">>)
        People ==
            DataFrame(<<name, Age, city>>, <<"object", "number", "object">>,
                      << <<a, NumCell(30), p>>,
                         <<b, NumCell(1), p>>,
                         <<a, NumCell(1), q>>,
                         <<a, NaN, p>>,
                         <<NaN, NumCell(30), q>> >>)
        Readings ==
            DataFrame(<<code, Age>>, <<"object", "number">>,
                      << <<StrCell(<<"1">>), NumCell(30)>>,
                         <<StrCell(<<"2">>), NumCell(1)>>,
                         <<StrCell(<<"x">>), NumCell(1)>>,
                         <<StrCell(<<" ","4">>), NumCell(0)>> >>)
        Words ==
            DataFrame(<<name, city>>, <<"object", "object">>,
                      << <<a, p>>, <<b, p>>, <<a, q>> >>)
        Sparse ==
            DataFrame(<<name, Age>>, <<"object", "number">>,
                      << <<a, NaN>>, <<b, NaN>>, <<a, NaN>> >>)
        Blank == DataFrame(<<name, Age>>, <<"object", "number">>, <<>>)
    IN {People, Readings, Words, Sparse, Blank}

\* filter clauses as the normalizer returns them, and one naming no column
RenderClauses ==
    { filter_dict(Str(Age), Str(<<"=","=">>), Thirty),
      filter_dict(Str(Age), Str(<<"=","=">>), One),
      filter_dict(Str(name), Str(<<"=","=">>), Str(<<"a">>)),
      filter_dict(Str(city), Str(<<"=","=">>), Str(<<"q">>)),
      filter_dict(Str(name), Str(<<"=","=">>), Thirty),
      filter_dict(Str(Age), Str(<<"!","=">>), Thirty),
      filter_dict(Str(name), Str(<<">">>), Str(<<"a">>)),
      filter_dict(Str(zz), Str(<<"=","=">>), Str(<<"a">>)) }

\* the specifications: one family varies the filters, one the axes and the
\* aggregation, one the chart type and the customization
ChartSpecs ==
    LET Bar == Str(<<"b","a","r">>)
        Pie == Str(<<"p","i","e">>)
        NoAgg == Str(<<"n","o","n","e">>)
        FilterSpecs ==
            { [NoKeys EXCEPT !.chart_type = ct, !.x_axis = Str(name), !.y_axis = y,
                             !.aggregation = NoAgg, !.filters = f] :
                ct \in {Bar, Str(<<"s","c","a","t","t","e","r">>)},
                y \in {None, Str(Age)},
                f \in {Absent, Str(<<"a","l","l">>), List(<<Str(<<"x">>)>>)}
                        \cup { List(fs) : fs \in SeqsUpTo(RenderClauses, MaxFilters) } }
        AggSpecs ==
            { [NoKeys EXCEPT !.chart_type = ct, !.x_axis = x, !.y_axis = y, !.color_by = c,
                             !.aggregation = g, !.filters = f] :
                ct \in {Bar, Str(<<"l","i","n","e">>), Pie},
                x \in {None, Str(name), Str(Age), Str(city)},
                y \in {None, Str(Age), Str(name), Str(zz)},
                c \in {None, Str(city), Str(name), Str(zz)},
                g \in {Absent, NoAgg, Str(<<"s","u","m">>), Str(<<"m","i","n">>),
                       Str(<<"m","a","x">>), Str(<<"c","o","u","n","t">>),
                       Str(<<"m","e","a","n">>), Str(<<"m","e","d","i","a","n">>)},
                f \in {Absent,
                       List(<<filter_dict(Str(name), Str(<<"=","=">>), Str(<<"a">>))>>)} }
        TypeSpecs ==
            { [NoKeys EXCEPT !.chart_type = ct, !.x_axis = x, !.y_axis = y,
                             !.aggregation = NoAgg, !.filters = f, !.customization = cu] :
                ct \in {Absent, None, Str(<<>>), Str(<<"B","A","R">>),
                        Str(<<"r","a","d","a","r">>),
                        Str(<<"h","i","s","t","o","g","r","a","m">>), Pie,
                        Str(<<"h","e","a","t","m","a","p">>), Str(<<"a","r","e","a">>),
                        Str(<<"b","o","x">>)},
                x \in {None, Str(name), Str(Age), Str(code)},
                y \in {None, Str(Age)},
                f \in {Absent,
                       List(<<filter_dict(Str(Age), Str(<<"=","=">>), Thirty)>>),
                       List(<<filter_dict(Str(name), Str(<<"=","=">>), Str(zz))>>)},
                cu \in CustomVals }
    IN FilterSpecs \cup AggSpecs \cup TypeSpecs

NotRendered ==
    [ok |-> FALSE, error |-> "none", cause |-> "pending", fig |-> NoFigure("pending"),
     filtered_df |-> NoFrame, builder_df |-> NoFrame]

-----------------------------------------------------------------------------
(* Part 4: the session store and the routes (routes/data.py,               *)
(* routes/charts.py) with the model bridge LLMHandler.parse_user_request   *)

\* chart-generation requests that can be in flight at once
MaxRequests == 1

\* the session ids requests are addressed to
Ids == {"s1", "s2"}

\* an id that is no key of active_sessions, and the dict stored under a key
NoSession ==
    [present |-> FALSE, dataframe |-> NoFrame, filename |-> <<>>,
     metadata |-> [columns |-> <<>>, numerical_columns |-> <<>>]]
Session(frame, filename, meta) ==
    [present |-> TRUE, dataframe |-> frame, filename |-> filename, metadata |-> meta]

\* analyze_data_structure(df), restricted to the keys the normalizer reads
analyze_data_structure(frame) ==
    [columns |-> frame.columns,
     numerical_columns |->
        SelectSeq(frame.columns, LAMBDA c : frame.dtypes[loc(frame, c)] = "number")]

\* validate_data(df): is_valid
validate_data(frame) ==
    /\ ~(Len(frame.rows) < 2)
    /\ ~(Len(frame.rows) > 100000)
    /\ ~empty(frame)
    /\ \E r \in DOMAIN frame.rows : \E i \in DOMAIN frame.rows[r] : frame.rows[r][i] # NaN

\* uploaded files: the name, the length of the body, what load_data makes of
\* it (a frame, or the ValueError it raises) and whether the column labels of
\* the frame are strings (date-typed header cells of a sheet are not)
Files ==
    LET csv == <<"t",".","C","S","V">>
        exe == <<"t",".","c","s","v",".","e","x","e">>
        File(filename, size, loaded, str_labels) ==
            [filename |-> filename, size |-> size, loaded |-> loaded,
             str_labels |-> str_labels]
        frame(first, rows) ==
            CHOOSE t \in Tables : t.columns[1] = first /\ Len(t.columns) = 2
                                  /\ (Len(t.rows) = rows)
        Readings == frame(code, 4)
        Blank == frame(name, 0)
        People == CHOOSE t \in Tables : Len(t.columns) = 3
    IN { File(exe, 10, Return(People), TRUE),
         File(csv, 52428801, Return(People), TRUE),
         File(csv, 10, Raise("Error loading file"), TRUE),
         File(csv, 10, Return(Blank), TRUE),
         File(csv, 52428800, Return(People), TRUE),
         File(<<"w",".","j","s","o","n">>, 10, Return(Readings), TRUE),
         File(<<"d",".","x","l","s","x">>, 10, Return(People), FALSE) }

\* the answer of a data route: the store it leaves and the status
Answer(sessions, status, cause) ==
    [sessions |-> sessions, status |-> status, cause |-> cause]

\* upload_data(session_id, file) on the store `sessions`
upload_data(sessions, session_id, file) ==
    LET MAX_UPLOAD_SIZE == 50 * 1024 * 1024
        ALLOWED_FILE_TYPES == {<<"c","s","v">>, <<"j","s","o","n">>, <<"x","l","s","x">>}
        dots == {i \in DOMAIN file.filename : file.filename[i] = "."}
        last == IF dots = {} THEN 0 ELSE CHOOSE i \in dots : \A j \in dots : j <= i
        file_extension == lower(SubSeq(file.filename, last + 1, Len(file.filename)))
        frame == file.loaded.df
        stored == [sessions EXCEPT ![session_id] =
                      Session(frame, file.filename, analyze_data_structure(frame))]
    IN IF file_extension \notin ALLOWED_FILE_TYPES
       THEN Answer(sessions, 400, "Unsupported file type")
       ELSE IF file.size > MAX_UPLOAD_SIZE THEN Answer(sessions, 413, "File too large")
       ELSE IF ~file.loaded.ok THEN Answer(sessions, 400, "Error processing file")
       ELSE IF ~validate_data(frame) THEN Answer(sessions, 400, "Data not valid")
       ELSE IF ~file.str_labels THEN Answer(stored, 400, "Error processing file")
       ELSE Answer(stored, 200, "none")

\* get_session_info(session_id)
get_session_info(sessions, session_id) ==
    IF ~sessions[session_id].present THEN Answer(sessions, 404, "Session not found")
    ELSE Answer(sessions, 200, "none")

\* delete_session emptying the whole store
delete_session_clears(sessions, session_id) ==
    IF ~sessions[session_id].present THEN Answer(sessions, 404, "Session not found")
    ELSE Answer([i \in Ids |-> NoSession], 200, "none")

\* delete_session(session_id)
delete_session(sessions, session_id) ==
    IF ~sessions[session_id].present THEN Answer(sessions, 404, "Session not found")
    ELSE Answer([sessions EXCEPT ![session_id] = NoSession], 200, "none")

\* what the text-generation endpoint does with the one POST of a request:
\* the call raises (no connection, timeout, error status), or it answers
\* with a content, whose JSON payload, if json.loads takes it, decodes to
\* `intent`
Replies ==
    LET Reply(kind, content, parses, intent) ==
            [kind |-> kind, content |-> content, parses |-> parses, intent |-> intent]
        Wrapped == <<"o","k"," ","{","x","}"," ">>
        Intent(ct, x, y, g) ==
            [NoKeys EXCEPT !.chart_type = ct, !.x_axis = x, !.y_axis = y, !.aggregation = g]
    IN { Reply(k, <<>>, FALSE, NoKeys) : k \in {"ConnectError", "ReadTimeout", "HTTPStatusError"} }
       \cup { Reply("content", c, FALSE, NoKeys) :
                c \in { <<" ">>, <<"x">>, <<"{","]">>, <<"{","x">>, <<"{","x","}">> } }
       \cup { Reply("content", <<"{","}">>, TRUE, NoKeys) }
       \cup { Reply("content", Wrapped, TRUE, i) :
                i \in { Intent(Str(<<"b","a","r">>), Str(name), Str(Age), Str(<<"s","u","m">>)),
                        Intent(Str(<<"b","a","r">>), Str(zz), Str(Age), Absent),
                        Intent(Str(<<"B","A","R">>), Str(name), None, Absent),
                        Intent(Str(<<"h","i","s","t","o","g","r","a","m">>), Str(name),
                               Absent, Str(<<"n","o","n","e">>)),
                        Intent(Str(<<"p","i","e">>), Str(code), Str(zz), Absent),
                        [Intent(Str(<<"b","a","r">>), Str(name), None, Absent)
                            EXCEPT !.filters = List(<<filter_dict(Str(name), Str(<<"=","=">>),
                                                                  Str(<<"a">>))>>)] } }

\* parse_user_request with a second POST after a failed call
parse_user_request_retry(reply, meta) ==
    LET failed(cause) ==
            [ok |-> FALSE, error |-> "Exception", cause |-> cause, spec |-> NoSpec,
             llm_calls |-> 2]
        content == strip(reply.content)
        json == extract_json_from_text(content, reply.parses)
        validated == validate_and_enhance_spec(reply.intent, meta)
    IN IF reply.kind # "content" THEN failed(reply.kind)
       ELSE IF content = <<>> THEN failed("Could not extract model output")
       ELSE IF ~json.ok THEN failed(json.error)
       ELSE IF ~validated.ok THEN failed("InvalidSpecification")
       ELSE [ok |-> TRUE, error |-> "none", cause |-> "none", spec |-> validated.spec,
             llm_calls |-> 1]

\* parse_user_request(user_query, data_metadata): the specification, or the
\* Exception every failure of the body is wrapped in; llm_calls counts the
\* POSTs to the endpoint
parse_user_request(reply, meta) ==
    LET failed(cause) ==
            [ok |-> FALSE, error |-> "Exception", cause |-> cause, spec |-> NoSpec,
             llm_calls |-> 1]
        content == strip(reply.content)
        json == extract_json_from_text(content, reply.parses)
        validated == validate_and_enhance_spec(reply.intent, meta)
    IN IF reply.kind # "content" THEN failed(reply.kind)
       ELSE IF content = <<>> THEN failed("Could not extract model output")
       ELSE IF ~json.ok THEN failed(json.error)
       ELSE IF ~validated.ok THEN failed("InvalidSpecification")
       ELSE [ok |-> TRUE, error |-> "none", cause |-> "none", spec |-> validated.spec,
             llm_calls |-> 1]

\* ChartResponse(**result): the specification passes ChartSpecification
ChartResponse(spec) ==
    LET optional_str(key) == get(spec, key) = None \/ isinstance_str(spec[key])
        filters == get(spec, "filters")
        customization == get(spec, "customization")
    IN /\ isinstance_str(get(spec, "chart_type")) /\ spec.chart_type.v \in chart_functions
       /\ isinstance_str(get(spec, "x_axis")) /\ truthy(spec.x_axis)
       /\ \A key \in {"y_axis", "color_by", "title", "x_label", "y_label"} : optional_str(key)
       /\ get(spec, "aggregation") = None
            \/ (isinstance_str(spec.aggregation)
                  /\ spec.aggregation.v \in agg_map \cup {<<"n","o","n","e">>})
       /\ filters = None
            \/ (isinstance_list(filters)
                  /\ \A i \in DOMAIN filters.v :
                        /\ isinstance_dict(filters.v[i])
                        /\ isinstance_str(get(filters.v[i].v, "column"))
                        /\ isinstance_str(get(filters.v[i].v, "operator"))
                        /\ has_key(filters.v[i].v, "value"))
       /\ customization = None
            \/ (isinstance_dict(customization)
                  /\ get(customization.v, "color_scheme") \in
                        {None, Str(<<"d","e","f","a","u","l","t">>),
                         Str(<<"v","i","r","i","d","i","s">>), Str(<<"p","l","a","s","m","a">>),
                         Str(<<"c","o","o","l","w","a","r","m">>)}
                  /\ get(customization.v, "show_legend") \in {None, True, False}
                  /\ get(customization.v, "data_labels") \in {None, True, False})

\* the answer of POST /charts/generate, with the POSTs and the renders the
\* request made
Generated(status, cause, llm_calls, renders) ==
    [status |-> status, cause |-> cause, llm_calls |-> llm_calls, renders |-> renders]

\* charts.generate_chart from the return of the model bridge on (lines
\* 32-48), on the table read from the session before the call; parsed is
\* what parse_user_request returned or raised
generate_chart_route(frame, parsed, plotly_accepts) ==
    IF ~parsed.ok THEN Generated(500, parsed.cause, parsed.llm_calls, 0)
    ELSE IF \E key \in {"x_axis", "y_axis", "color_by"} :
               truthy(get(parsed.spec, key))
                 /\ ~in_columns(parsed.spec[key].v, frame)
    THEN Generated(400, "Column not found in data", parsed.llm_calls, 0)
    ELSE IF ~generate_chart(frame, parsed.spec, plotly_accepts).ok
    THEN Generated(500, "RenderError", parsed.llm_calls, 1)
    ELSE IF ~ChartResponse(parsed.spec)
    THEN Generated(400, "ValidationError", parsed.llm_calls, 1)
    ELSE Generated(200, "none", parsed.llm_calls, 1)

-----------------------------------------------------------------------------
(* The state machines. Each part runs on its own variables; the variables  *)
(* of the other parts rest at their idle values.                           *)

\* a chart-generation request that waits for the model call: the table and
\* the metadata it read from its session (charts.py:19-21); a free slot
Request(pc, session_id, frame, meta) ==
    [pc |-> pc, session_id |-> session_id, df |-> frame, metadata |-> meta]

\* the reply field of a response that involved no model call
NoReply == [kind |-> "none", content |-> <<>>, parses |-> FALSE, intent |-> NoKeys]

\* the last response sent: the route, the session id of the request, the
\* status, and for a chart generation the table and metadata it had read,
\* the POSTs and renders it made and the reply of the endpoint it worked on
Responded(route, request, answer, reply) ==
    [route |-> route, session_id |-> request.session_id, df |-> request.df,
     metadata |-> request.metadata, status |-> answer.status,
     cause |-> answer.cause, llm_calls |-> answer.llm_calls, renders |-> answer.renders,
     reply |-> reply]

\* the variables of the parts other than the running one, at rest
Idle(running) ==
    /\ IF running = "norm" THEN TRUE
       ELSE /\ raw = NoKeys
            /\ metadata = [columns |-> <<>>, numerical_columns |-> <<>>]
            /\ canon = Pending
            /\ again = Pending
            /\ npc = "idle"
    /\ IF running = "extract" THEN TRUE
       ELSE /\ text = NoText
            /\ extracted = NoPayload
            /\ epc = "idle"
    /\ IF running = "render" THEN TRUE
       ELSE /\ df = NoFrame
            /\ chart_spec = NoKeys
            /\ rendered = NotRendered
            /\ rpc = "idle"
    /\ IF running = "session" THEN TRUE
       ELSE /\ active_sessions = [i \in Ids |-> NoSession]
            /\ inflight = [k \in 1..MaxRequests |->
                             Request("free", "none", NoFrame, NoSession.metadata)]
            /\ response = Responded("none", Request("free", "none", NoFrame, NoSession.metadata),
                                  Generated(0, "none", 0, 0), NoReply)
            /\ live = {}

(* the normalizer: one call, then a second call on the specification the   *)
(* first one returned                                                      *)

InitNorm ==
    /\ raw \in RawIntents
    /\ metadata \in Metadatas
    /\ canon = Pending
    /\ again = Pending
    /\ npc = "raw"
    /\ Idle("norm")

\* chart_spec = self.validate_and_enhance_spec(chart_spec_dict, data_metadata)
Normalize ==
    /\ npc = "raw"
    /\ canon' = validate_and_enhance_spec(raw, metadata)
    /\ npc' = "normalized"
    /\ UNCHANGED <<raw, metadata, again, extractVars, renderVars, sessionVars>>

\* the returned specification is validated against the same metadata again
Renormalize ==
    /\ npc = "normalized"
    /\ canon.ok
    /\ again' = validate_and_enhance_spec(canon.spec, metadata)
    /\ npc' = "renormalized"
    /\ UNCHANGED <<raw, metadata, canon, extractVars, renderVars, sessionVars>>

NextNorm == Normalize \/ Renormalize

SpecNorm == InitNorm /\ [][NextNorm]_vars

(* the extraction: one call on a model output *)

InitExtract ==
    /\ text \in Texts
    /\ extracted = NoPayload
    /\ epc = "text"
    /\ Idle("extract")

\* chart_spec_dict = extract_json_from_text(content)
Extract ==
    /\ epc = "text"
    /\ \E parses \in BOOLEAN :
          /\ extract_json_from_text(text, parses).json_str # <<>>
                => parses \in json_loads(extract_json_from_text(text, parses).json_str)
          /\ extracted' = extract_json_from_text(text, parses)
    /\ epc' = "done"
    /\ UNCHANGED <<text, normVars, renderVars, sessionVars>>

NextExtract == Extract

SpecExtract == InitExtract /\ [][NextExtract]_vars

(* the rendering engine: one call of generate_chart on a table and a       *)
(* specification                                                           *)

InitRender ==
    /\ df \in Tables
    /\ chart_spec \in ChartSpecs
    /\ rendered = NotRendered
    /\ rpc = "ready"
    /\ Idle("render")

\* result = await chart_generator.generate_chart(df, chart_spec)
Render ==
    /\ rpc = "ready"
    /\ \E plotly_accepts \in BOOLEAN :
          rendered' = generate_chart(df, chart_spec, plotly_accepts)
    /\ rpc' = "done"
    /\ UNCHANGED <<df, chart_spec, normVars, extractVars, sessionVars>>

NextRender == Render

SpecRender == InitRender /\ [][NextRender]_vars

(* the session store and the routes: requests arrive in any order; a chart  *)
(* generation suspends once, at the model call, and the other handlers run *)
(* without suspending between their reads and writes of the store          *)

InitSession ==
    /\ active_sessions = [i \in Ids |-> NoSession]
    /\ inflight = [k \in 1..MaxRequests |->
                     Request("free", "none", NoFrame, NoSession.metadata)]
    /\ response = Responded("none", Request("free", "none", NoFrame, NoSession.metadata),
                                  Generated(0, "none", 0, 0), NoReply)
    /\ live = {}
    /\ Idle("session")

\* the store, the response and the ids in use after a data route answered;
\* live holds the ids whose last upload or delete answered 200 was an upload
Answered(route, session_id, answer) ==
    [active_sessions |-> answer.sessions,
     response |-> Responded(route, Request("free", session_id, NoFrame, NoSession.metadata),
                            Generated(answer.status, answer.cause, 0, 0), NoReply),
     live |-> IF answer.status # 200 \/ route = "get" THEN live
              ELSE IF route = "delete" THEN live \ {session_id}
              ELSE live \cup {session_id}]

\* POST /data/upload/{session_id}
Upload ==
    \E session_id \in Ids, file \in Files :
        LET after == Answered("upload", session_id,
                              upload_data(active_sessions, session_id, file))
        IN /\ active_sessions' = after.active_sessions
           /\ response' = after.response
           /\ live' = after.live
           /\ UNCHANGED <<inflight, normVars, extractVars, renderVars>>

\* POST /data/upload: the same handler on a fresh uuid4
UploadLegacy ==
    \E session_id \in Ids, file \in Files :
        LET after == Answered("upload", session_id,
                              upload_data(active_sessions, session_id, file))
        IN /\ ~active_sessions[session_id].present
           /\ active_sessions' = after.active_sessions
           /\ response' = after.response
           /\ live' = after.live
           /\ UNCHANGED <<inflight, normVars, extractVars, renderVars>>

\* GET /data/sessions/{session_id}
GetSession ==
    \E session_id \in Ids :
        LET after == Answered("get", session_id,
                              get_session_info(active_sessions, session_id))
        IN /\ active_sessions' = after.active_sessions
           /\ response' = after.response
           /\ live' = after.live
           /\ UNCHANGED <<inflight, normVars, extractVars, renderVars>>

\* DELETE /data/sessions/{session_id}
DeleteSession ==
    \E session_id \in Ids :
        LET after == Answered("delete", session_id,
                              delete_session(active_sessions, session_id))
        IN /\ active_sessions' = after.active_sessions
           /\ response' = after.response
           /\ live' = after.live
           /\ UNCHANGED <<inflight, normVars, extractVars, renderVars>>

\* POST /charts/generate/{session_id} up to the model call: 404, or the
\* table and the metadata are read and the request waits for the endpoint
GenerateStart ==
    \E k \in 1..MaxRequests, session_id \in Ids :
        /\ inflight[k].pc = "free"
        /\ IF ~active_sessions[session_id].present
           THEN /\ response' = Responded("generate",
                                         Request("free", session_id, NoFrame,
                                                 NoSession.metadata),
                                         Generated(404, "Session not found", 0, 0), NoReply)
                /\ UNCHANGED inflight
           ELSE /\ inflight' = [inflight EXCEPT ![k] =
                                  Request("awaiting", session_id,
                                          active_sessions[session_id].dataframe,
                                          active_sessions[session_id].metadata)]
                /\ UNCHANGED response
        /\ UNCHANGED <<active_sessions, live, normVars, extractVars, renderVars>>

\* the request looking its session up again after the model call: the
\* metadata of the session as it is then, 404 when it is gone
GenerateFinish_rereads ==
    \E k \in 1..MaxRequests, reply \in Replies, plotly_accepts \in BOOLEAN :
        /\ inflight[k].pc = "awaiting"
        /\ \E session \in {active_sessions[inflight[k].session_id]} :
            \E parsed \in {parse_user_request(reply, session.metadata)} :
              \E answer \in {IF ~session.present
                             THEN Generated(404, "Session not found", 1, 0)
                             ELSE generate_chart_route(inflight[k].df, parsed,
                                                       plotly_accepts)} :
                 response' = Responded("generate",
                                       Request("free", inflight[k].session_id,
                                               inflight[k].df, session.metadata),
                                       answer, reply)
        /\ inflight' = [inflight EXCEPT ![k] =
                          Request("free", "none", NoFrame, NoSession.metadata)]
        /\ UNCHANGED <<active_sessions, live, normVars, extractVars, renderVars>>

\* the request filtering the table of its session in place: the session
\* that still holds the table the request read holds the filtered rows
GenerateFinish_filters_in_place ==
    \E k \in 1..MaxRequests, reply \in Replies, plotly_accepts \in BOOLEAN :
        /\ inflight[k].pc = "awaiting"
        /\ \E parsed \in {parse_user_request(reply, inflight[k].metadata)} :
              /\ \E answer \in {generate_chart_route(inflight[k].df, parsed, plotly_accepts)} :
                    response' = Responded("generate", inflight[k], answer, reply)
              /\ active_sessions' =
                    [i \in Ids |->
                       IF parsed.ok /\ active_sessions[i].present
                            /\ active_sessions[i].dataframe = inflight[k].df
                       THEN [active_sessions[i] EXCEPT
                               !.dataframe = after_filters(inflight[k].df, parsed.spec)]
                       ELSE active_sessions[i]]
        /\ inflight' = [inflight EXCEPT ![k] =
                          Request("free", "none", NoFrame, NoSession.metadata)]
        /\ UNCHANGED <<live, normVars, extractVars, renderVars>>

\* the model call returns or raises and the request runs to its response
GenerateFinish ==
    \E k \in 1..MaxRequests, reply \in Replies, plotly_accepts \in BOOLEAN :
        /\ inflight[k].pc = "awaiting"
        /\ \E parsed \in {parse_user_request(reply, inflight[k].metadata)} :
              \E answer \in {generate_chart_route(inflight[k].df, parsed, plotly_accepts)} :
                 response' = Responded("generate", inflight[k], answer, reply)
        /\ inflight' = [inflight EXCEPT ![k] =
                          Request("free", "none", NoFrame, NoSession.metadata)]
        /\ UNCHANGED <<active_sessions, live, normVars, extractVars, renderVars>>

NextSession ==
    \/ Upload
    \/ UploadLegacy
    \/ GetSession
    \/ DeleteSession
    \/ GenerateStart
    \/ GenerateFinish

SpecSession == InitSession /\ [][NextSession]_vars

-----------------------------------------------------------------------------
(* Properties of the rendering engine *)

Rendered == rpc = "done"

Histogram == Str(<<"h","i","s","t","o","g","r","a","m">>)
Sum == Str(<<"s","u","m">>)
Min == Str(<<"m","i","n">>)
Max == Str(<<"m","a","x">>)

\* the call got as far as the filter step: the chart type is a known one,
\* the table has rows and columns, the filters are a list of clauses or unset
RefReachesFilters ==
    /\ isinstance_str(get_default(chart_spec, "chart_type", Str(<<>>)))
    /\ lower(get_default(chart_spec, "chart_type", Str(<<>>)).v) \in chart_functions
    /\ df.rows # <<>> /\ df.columns # <<>>
    /\ get(chart_spec, "filters") = None
         \/ (isinstance_list(chart_spec.filters)
               /\ \A i \in DOMAIN chart_spec.filters.v : isinstance_dict(chart_spec.filters.v[i]))

RefClauses == IF get(chart_spec, "filters") = None THEN <<>> ELSE chart_spec.filters.v

\* an exact-match clause on a column of the table
RefApplies(clause) ==
    /\ clause.v.operator = Str(EqOp)
    /\ \E i \in DOMAIN df.columns : Str(df.columns[i]) = clause.v.column

\* the row holds the clause's value in the clause's column
RefSatisfies(row, clause) ==
    \E i \in DOMAIN df.columns :
        /\ Str(df.columns[i]) = clause.v.column
        /\ \/ row[i].k = "str" /\ clause.v.value = Str(row[i].s)
           \/ row[i].k = "num" /\ clause.v.value.t = "num"
                /\ int_of(clause.v.value.v) * row[i].d = row[i].n

\* the rows that satisfy every exact-match clause on a known column
RefKeptRows ==
    SelectSeq(df.rows, LAMBDA row :
        \A i \in DOMAIN RefClauses :
            RefApplies(RefClauses[i]) => RefSatisfies(row, RefClauses[i]))

\* C19: the table handed to the aggregation step holds exactly the rows of
\* the input table that satisfy every '==' clause on a column of the table,
\* in their order; clauses with another operator or an unknown column leave
\* the table as it is; when no row is left the render fails.
C19_FilterStep ==
    (Rendered /\ RefReachesFilters) =>
        IF RefKeptRows = <<>>
        THEN ~rendered.ok /\ rendered.cause = "No data matches the specified filters"
        ELSE rendered.filtered_df = [df EXCEPT !.rows = RefKeptRows]

\* C19 witness: two exact-match clauses that each keep several rows and
\* together keep one
C19_Witness ==
    /\ Rendered /\ RefReachesFilters
    /\ Len(RefClauses) = 2
    /\ \A i \in 1..2 : RefApplies(RefClauses[i])
    /\ RefClauses[1] # RefClauses[2]
    /\ Len(rendered.filtered_df.rows) = 1
    /\ \A i \in 1..2 :
          Len(SelectSeq(df.rows, LAMBDA row : RefSatisfies(row, RefClauses[i]))) > 1

\* C19 witness: a clause with another operator and one on an unknown column
\* leave all rows
C19_WitnessUnchanged ==
    /\ Rendered /\ RefReachesFilters
    /\ Len(RefClauses) = 2
    /\ RefClauses[1].v.operator = Str(NeOp)
    /\ RefClauses[2].v.column = Str(zz)
    /\ rendered.filtered_df = df

\* C19 witness: the clauses leave no row
C19_WitnessNoRows ==
    /\ Rendered /\ RefReachesFilters
    /\ \E i \in DOMAIN RefClauses : RefApplies(RefClauses[i])
    /\ RefKeptRows = <<>>
    /\ rendered.cause = "No data matches the specified filters"

\* the chart type the call dispatches on is none of the known ones
RefUnknownType ==
    /\ isinstance_str(get_default(chart_spec, "chart_type", Str(<<>>)))
    /\ lower(get_default(chart_spec, "chart_type", Str(<<>>)).v) \notin chart_functions

\* the table passes the empty check, the filter step and the column selection
RefPassesSelection ==
    /\ df.rows # <<>> /\ df.columns # <<>>
    /\ ~filters_raise(get(chart_spec, "filters"))
    /\ after_filters(df, chart_spec).rows # <<>>
    /\ LET cols == _get_columns_for_chart(chart_spec)
       IN cols # <<>> =>
            _prepare_data(after_aggregation(after_filters(df, chart_spec), chart_spec),
                          cols, FALSE).ok

\* C20: the empty-table check comes first and the chart-type check belongs
\* to the dispatch step: rendering a table without rows fails with the
\* empty-table cause whatever the chart type is, and an unrecognised chart
\* type is reported only for a table that passed the filter and the
\* column-selection steps.
C20_CheckOrder ==
    Rendered =>
        /\ (df.rows = <<>> /\ isinstance_str(get_default(chart_spec, "chart_type", Str(<<>>))))
              => rendered.cause = "Input dataframe is empty"
        /\ rendered.cause = "Unsupported chart type" => RefPassesSelection

\* the x_axis of the specification names a text column of the table none of
\* whose values converts to a number
RefUnconvertibleX ==
    /\ isinstance_str(get(chart_spec, "x_axis"))
    /\ \E i \in DOMAIN df.columns :
          /\ df.columns[i] = chart_spec.x_axis.v
          /\ df.dtypes[i] = "object"
          /\ \E r \in DOMAIN df.rows : df.rows[r][i] # NaN
          /\ \A r \in DOMAIN df.rows :
                df.rows[r][i].k = "str" => ~numeric_string(df.rows[r][i].s)

\* the numeric columns of the table that hold a value
RefNumericColumns ==
    SelectSeq(df.columns, LAMBDA c :
        \E i \in DOMAIN df.columns :
            /\ df.columns[i] = c
            /\ df.dtypes[i] = "number"
            /\ \E r \in DOMAIN df.rows : df.rows[r][i] # NaN)

\* a histogram request without filters and customization
RefPlainHistogram ==
    /\ chart_spec.chart_type = Histogram
    /\ chart_spec.filters = Absent
    /\ chart_spec.customization = Absent

\* C15: a histogram asked on a text column that is wholly unconvertible is
\* built on the first numeric column of the table and succeeds when the
\* table has a numeric column; it fails only when the table has none.
C15_HistogramFallback ==
    (Rendered /\ RefPlainHistogram /\ RefUnconvertibleX) =>
        IF RefNumericColumns # <<>>
        THEN rendered.ok /\ rendered.fig.x = RefNumericColumns[1]
        ELSE ~rendered.ok

\* the table handed to the aggregation step and the one handed to the builder
RefFiltered == rendered.filtered_df
RefBuilt == rendered.builder_df

RefX == chart_spec.x_axis.v
RefY == chart_spec.y_axis.v

\* a position of the column labelled c in table t
RefCol(t, c) == CHOOSE i \in DOMAIN t.columns : t.columns[i] = c

\* an aggregation of sum, min, max or count was requested on two columns of
\* the table (a numeric y unless the rows are counted), and the call got as
\* far as the builder
RefAggRequested ==
    /\ get(chart_spec, "aggregation") \in {Sum, Min, Max, Count}
    /\ isinstance_str(get(chart_spec, "x_axis")) /\ in_columns(RefX, df)
    /\ isinstance_str(get(chart_spec, "y_axis")) /\ in_columns(RefY, df)
    /\ chart_spec.aggregation # Count => df.dtypes[RefCol(df, RefY)] = "number"
    /\ RefBuilt # NoFrame

\* the columns the rows are grouped by: x_axis, and color_by when it is set
\* and names a column
RefBy ==
    IF isinstance_str(get(chart_spec, "color_by")) /\ in_columns(chart_spec.color_by.v, df)
    THEN <<RefX, chart_spec.color_by.v>>
    ELSE <<RefX>>

\* x_axis, y_axis and the color_by column are different columns
RefDistinctLabels ==
    \A i, j \in DOMAIN (RefBy \o <<RefY>>) :
        i # j => (RefBy \o <<RefY>>)[i] # (RefBy \o <<RefY>>)[j]

RefKeyOf(row) == [i \in DOMAIN RefBy |-> row[RefCol(RefFiltered, RefBy[i])]]

\* the distinct keys of the filtered table (a null is no value)
RefKeys ==
    { RefKeyOf(RefFiltered.rows[r]) :
        r \in { r \in DOMAIN RefFiltered.rows :
                  \A i \in DOMAIN RefBy : RefKeyOf(RefFiltered.rows[r])[i] # NaN } }

\* the rows of a group, and those among them that hold a y value
RefGroup(k) == { r \in DOMAIN RefFiltered.rows : RefKeyOf(RefFiltered.rows[r]) = k }
RefYCell(r) == RefFiltered.rows[r][RefCol(RefFiltered, RefY)]
RefValued(k) == { r \in RefGroup(k) : RefYCell(r) # NaN }

RECURSIVE RefTotal(_)
RefTotal(rs) ==
    IF rs = {} THEN 0
    ELSE LET r == CHOOSE r \in rs : TRUE IN RefYCell(r).n + RefTotal(rs \ {r})

\* the requested reduction of the y values of a group
RefReduction(k) ==
    CASE chart_spec.aggregation = Count -> NumCell(Cardinality(RefGroup(k)))
      [] chart_spec.aggregation = Sum -> NumCell(RefTotal(RefValued(k)))
      [] chart_spec.aggregation = Min ->
            IF RefValued(k) = {} THEN NaN
            ELSE RefYCell(CHOOSE r \in RefValued(k) :
                            \A o \in RefValued(k) : RefYCell(r).n <= RefYCell(o).n)
      [] chart_spec.aggregation = Max ->
            IF RefValued(k) = {} THEN NaN
            ELSE RefYCell(CHOOSE r \in RefValued(k) :
                            \A o \in RefValued(k) : RefYCell(r).n >= RefYCell(o).n)

\* the y value of a row of the builder's table, null when the column was
\* dropped for holding nulls only
RefBuiltY(r) ==
    IF in_columns(RefY, RefBuilt) THEN RefBuilt.rows[r][RefCol(RefBuilt, RefY)] ELSE NaN

\* the builder's table has one row per key, holding the group's reduction
RefAggregated ==
    /\ Len(RefBuilt.rows) = Cardinality(RefKeys)
    /\ \A k \in RefKeys :
          \E r \in DOMAIN RefBuilt.rows :
              /\ \A i \in DOMAIN RefBy :
                    RefBuilt.rows[r][RefCol(RefBuilt, RefBy[i])] = k[i]
              /\ RefBuiltY(r) = RefReduction(k)

\* the rows of the filtered table that hold a value in a selected column
RefSelectedRows ==
    SelectSeq(RefFiltered.rows, LAMBDA row :
        \E i \in DOMAIN RefFiltered.columns :
            /\ RefFiltered.columns[i] \in {RefX, RefY} \cup {RefBy[j] : j \in DOMAIN RefBy}
                 \cup (IF truthy(get(chart_spec, "color_by"))
                       THEN {chart_spec.color_by.v} ELSE {})
            /\ row[i] # NaN)

\* the builder's table has the rows of the filtered table, not grouped
RefUnaggregated ==
    /\ Len(RefBuilt.rows) = Len(RefSelectedRows)
    /\ \A r \in DOMAIN RefBuilt.rows : \A i \in DOMAIN RefBuilt.columns :
          RefBuilt.rows[r][i] = RefSelectedRows[r][RefCol(RefFiltered, RefBuilt.columns[i])]

\* C16: when the aggregation is sum, min, max or count and x_axis and y_axis
\* are set, the table passed to the chart builder has exactly one row per
\* distinct x_axis value of the filtered table (per distinct (x_axis,
\* color_by) pair when color_by is set and is a column), and the row's y_axis
\* value is the requested reduction of the group's y values, count being the
\* number of rows of the group.
C16_AggregationResult ==
    (Rendered /\ RefAggRequested) => RefAggregated

\* C16 as amended: the same holds when x_axis, y_axis and the color_by column
\* are different columns; when two of them are the same column the
\* aggregation fails, the failure is swallowed and the builder is handed the
\* rows of the filtered table as they are.
C16_AggregationUnlessFailed ==
    (Rendered /\ RefAggRequested) =>
        IF RefDistinctLabels THEN RefAggregated ELSE RefUnaggregated

\* C16 witness: a sum per (x_axis, color_by) pair over groups of several
\* rows, one of them holding a null
C16_Witness ==
    /\ Rendered /\ RefAggRequested /\ RefDistinctLabels
    /\ chart_spec.aggregation = Sum
    /\ Len(RefBy) = 2
    /\ Cardinality(RefKeys) > 1
    /\ \E k \in RefKeys : Cardinality(RefGroup(k)) > Cardinality(RefValued(k))
                          /\ RefValued(k) # {}
    /\ Len(RefBuilt.rows) < Len(RefFiltered.rows)

\* C16 witness: a count of groups of different sizes
C16_WitnessCount ==
    /\ Rendered /\ RefAggRequested /\ RefDistinctLabels
    /\ chart_spec.aggregation = Count
    /\ \E k1, k2 \in RefKeys : Cardinality(RefGroup(k1)) > Cardinality(RefGroup(k2))
    /\ \E k \in RefKeys : Cardinality(RefGroup(k)) > Cardinality(RefValued(k))

\* C16 witness of the swallowed failure: x_axis and y_axis are one column
C16_WitnessFailed ==
    /\ Rendered /\ RefAggRequested /\ ~RefDistinctLabels
    /\ Len(RefBuilt.rows) > Cardinality(RefKeys)

-----------------------------------------------------------------------------
(* Properties of the routes and the session store, under SpecSession        *)

\* the last response answers a chart generation
Generation == response.route = "generate"

\* the chart generation read no session
RefUnknownSession == response.df = NoFrame

\* the endpoint answered with text that holds a JSON payload, and the
\* normalizer rejects that payload for the columns of the session
RefSpecRejected ==
    /\ response.reply.kind = "content"
    /\ extract_json_from_text(strip(response.reply.content), response.reply.parses).ok
    /\ ~validate_and_enhance_spec(response.reply.intent, response.metadata).ok

\* C13: a chart generation answers 404 exactly when the session is unknown,
\* and 400, never 500, when the normalizer rejects the specification the
\* model returned
C13_StatusCodes ==
    Generation =>
        /\ response.status = 404 <=> RefUnknownSession
        /\ RefSpecRejected => response.status = 400
        /\ response.status = 500 => ~RefSpecRejected

\* the parts of C13 that the routes keep: 404 exactly for an unknown session
C13_UnknownSession ==
    Generation => (response.status = 404 <=> RefUnknownSession)

\* the step answers a GET or a DELETE of /data/sessions/{id}
RefSessionRequest ==
    /\ response'.route \in {"get", "delete"}
    /\ response' # response

\* C14: GET and DELETE of a session id answer 404 exactly when the id has
\* had no upload answered 200 since its last DELETE answered 200 (or never
\* had one); a DELETE answered 200 removes the session and one answered 404
\* changes nothing
C14_Lifecycle ==
    [][RefSessionRequest =>
          /\ response'.status = 404 <=> response'.session_id \notin live
          /\ response'.route = "delete" /\ response'.status = 200
                => ~active_sessions'[response'.session_id].present
          /\ response'.status = 404 => active_sessions' = active_sessions]_vars

\* two answers of a data route agree for the request on session id a
same_outcome(one, other, a) ==
    /\ one.status = other.status
    /\ one.cause = other.cause
    /\ one.sessions[a] = other.sessions[a]

\* every request on an id a is answered the same, and leaves the same entry
\* for a, whether or not another id b is in the store
RefOutcomeIndependent ==
    \A a \in Ids : \A b \in Ids \ {a} :
        LET without == [active_sessions EXCEPT ![b] = NoSession]
        IN /\ \A file \in Files :
                same_outcome(upload_data(active_sessions, a, file),
                             upload_data(without, a, file), a)
           /\ same_outcome(get_session_info(active_sessions, a),
                           get_session_info(without, a), a)
           /\ same_outcome(delete_session(active_sessions, a),
                           delete_session(without, a), a)
           /\ active_sessions[a] = without[a]

\* C17: a request addressed to one session id leaves the table, metadata
\* and filename stored under every other id unchanged, and its outcome does
\* not depend on whether another id is in the store
C17_NoInterference ==
    /\ [][\A b \in Ids :
            b # response'.session_id => active_sessions'[b] = active_sessions[b]]_vars
    /\ []RefOutcomeIndependent

\* a delete of one id was answered 200 while another id holds a session
C17_Witness ==
    \E a \in Ids : \E b \in Ids \ {a} :
        /\ response.route = "delete" /\ response.status = 200 /\ response.session_id = a
        /\ active_sessions[b].present

\* an upload replaced the session of one id while another id holds a session
C17_WitnessUpload ==
    \E a \in Ids : \E b \in Ids \ {a} :
        /\ response.route = "upload" /\ response.status = 200 /\ response.session_id = a
        /\ active_sessions[a].present /\ active_sessions[b].present
        /\ active_sessions[a] # active_sessions[b]

\* a chart generation on one id was answered while another id holds a session
C17_WitnessGenerate ==
    \E a \in Ids : \E b \in Ids \ {a} :
        /\ Generation /\ response.status = 200 /\ response.session_id = a
        /\ active_sessions[b].present

\* the one call to the text-generation endpoint failed: it raised (no
\* connection, timeout, error status), or its output was empty or held no
\* well-formed JSON payload
RefModelCallFailed ==
    \/ response.reply.kind # "content"
    \/ strip(response.reply.content) = <<>>
    \/ ~extract_json_from_text(strip(response.reply.content), response.reply.parses).ok

\* the render of the request raised
RefRenderFailed == response.cause = "RenderError"

\* C18: a chart generation makes at most one call to the text-generation
\* endpoint and at most one render; when the call fails the request ends
\* with an error after that one call and without a render, and when the
\* render fails the request ends with an error after that one render
C18_NoRetries ==
    Generation =>
        /\ response.llm_calls <= 1
        /\ response.renders <= 1
        /\ response.status # 404 /\ RefModelCallFailed
              => response.status >= 400 /\ response.llm_calls = 1 /\ response.renders = 0
        /\ RefRenderFailed => response.status >= 400 /\ response.renders = 1

\* the call to the endpoint timed out and the request was answered
C18_Witness ==
    Generation /\ response.reply.kind = "ReadTimeout" /\ response.llm_calls = 1

\* the endpoint answered with malformed output
C18_WitnessMalformed ==
    /\ Generation /\ response.reply.kind = "content" /\ response.reply.content # <<>>
    /\ RefModelCallFailed /\ response.llm_calls = 1

\* the render failed
C18_WitnessRender == Generation /\ RefRenderFailed /\ response.renders = 1

-----------------------------------------------------------------------------
(* Properties of the pie chart, under SpecRender                            *)

\* a pie chart was rendered
RefPieRendered ==
    /\ Rendered /\ rendered.ok
    /\ chart_spec.chart_type = Str(<<"p","i","e">>)

\* the slices of the figure: a value of x_axis and the size of its slice
RefSlices == rendered.fig.df.rows

\* the rows of the filtered table that carry the value v in x_axis
RefRowsWith(v) ==
    { r \in DOMAIN RefFiltered.rows : RefFiltered.rows[r][RefCol(RefFiltered, RefX)] = v }

\* each slice has the size of the number of rows of the filtered table that
\* carry its value, and every value of x_axis in the filtered table has a slice
RefSlicesCountRows ==
    /\ \A i \in DOMAIN RefSlices :
          RefSlices[i][2] = NumCell(Cardinality(RefRowsWith(RefSlices[i][1])))
    /\ \A r \in DOMAIN RefFiltered.rows :
          LET v == RefFiltered.rows[r][RefCol(RefFiltered, RefX)]
          IN v # NaN => \E i \in DOMAIN RefSlices : RefSlices[i][1] = v

\* C21: in every rendered pie chart, with or without y_axis and an
\* aggregation, the slice of each distinct x_axis value has the size of the
\* number of rows of the filtered table that carry that value
C21_PieSlicesCountRows == RefPieRendered => RefSlicesCountRows

\* the part of C21 the builder keeps: a pie chart whose table did not go
\* through the aggregation step counts the rows of the filtered table
C21_PieWithoutAggregation ==
    (RefPieRendered /\ (~truthy(get(chart_spec, "y_axis"))
                          \/ get_default(chart_spec, "aggregation", Str(<<"n","o","n","e">>))
                               = Str(<<"n","o","n","e">>)))
        => RefSlicesCountRows

-----------------------------------------------------------------------------
(* Properties of the upload and of the table a chart generation works on,  *)
(* under SpecSession                                                        *)

\* the step ends with an upload answered with an error (the only steps that
\* leave the response of an upload in place change no session)
RefUploadFailed ==
    /\ response'.route = "upload"
    /\ response'.status \in {400, 413}

\* C22: an upload answered 400 or 413 creates no session and replaces no
\* session's table, metadata or filename
C22_FailedUploadKeepsStore ==
    [][RefUploadFailed => active_sessions' = active_sessions]_vars

\* request k reads its session in this step, and is answered in this step
RefStarts(k) == inflight[k].pc = "free" /\ inflight'[k].pc = "awaiting"
RefFinishes(k) == inflight[k].pc = "awaiting" /\ inflight'[k].pc = "free"

\* the table and the metadata are those of one upload
RefOneUpload(frame, meta) ==
    \E file \in Files :
        /\ file.loaded.ok
        /\ frame = file.loaded.df
        /\ meta = analyze_data_structure(file.loaded.df)

\* the answer of a chart generation that found its session is the one of
\* normalizing the reply against the metadata it read and rendering the
\* table it read
RefAnswersSnapshot ==
    (Generation /\ ~RefUnknownSession) =>
        \E plotly_accepts \in BOOLEAN :
            response.status =
               generate_chart_route(response.df,
                                    parse_user_request(response.reply, response.metadata),
                                    plotly_accepts).status

\* C23: a chart generation reads the table and the metadata of its session
\* together before the model call, both of one upload; while the call is in
\* flight no upload or delete changes what it holds; its answer is the one
\* of normalizing against that metadata and rendering that table, and is
\* never 404
C23_ConsistentSnapshot ==
    /\ [][\A k \in 1..MaxRequests :
          /\ RefStarts(k) =>
                /\ active_sessions[inflight'[k].session_id].present
                /\ inflight'[k].df = active_sessions[inflight'[k].session_id].dataframe
                /\ inflight'[k].metadata = active_sessions[inflight'[k].session_id].metadata
                /\ RefOneUpload(inflight'[k].df, inflight'[k].metadata)
          /\ inflight[k].pc = "awaiting" /\ inflight'[k].pc = "awaiting"
                => inflight'[k] = inflight[k]
          /\ RefFinishes(k) =>
                /\ response'.route = "generate"
                /\ response'.session_id = inflight[k].session_id
                /\ response'.status # 404
                /\ response'.df = inflight[k].df
                /\ response'.metadata = inflight[k].metadata]_vars
    /\ []RefAnswersSnapshot

\* a chart generation was answered 200 on the table it had read, after
\* another upload replaced the table of its session
C23_Witness ==
    /\ Generation /\ response.status = 200
    /\ active_sessions[response.session_id].present
    /\ active_sessions[response.session_id].dataframe # response.df
    /\ active_sessions[response.session_id].metadata # response.metadata

\* a chart generation was answered 200 after its session was deleted
C23_WitnessDeleted ==
    /\ Generation /\ response.status = 200
    /\ ~active_sessions[response.session_id].present

\* the step is one of a chart generation: it answers one (404, or the
\* answer after the model call), or the request reads its session
RefGenerationStep ==
    \/ \E k \in 1..MaxRequests : RefStarts(k) \/ RefFinishes(k)
    \/ response'.route = "generate" /\ response' # response

\* C24: a chart generation, answered 200 or with an error, with or without
\* filters and aggregation and for every chart type, leaves the table of
\* every session with the columns, rows and values it had
C24_RenderKeepsTable ==
    [][RefGenerationStep =>
          \A i \in Ids :
              /\ active_sessions'[i].present = active_sessions[i].present
              /\ active_sessions'[i].dataframe = active_sessions[i].dataframe]_vars

\* a chart with a filter that drops rows and a count per group was answered
\* 200 and the session still holds the table the request read
C24_Witness ==
    /\ Generation /\ response.status = 200
    /\ response.reply.intent.filters # Absent
    /\ active_sessions[response.session_id].present
    /\ active_sessions[response.session_id].dataframe = response.df
    /\ after_filters(response.df, response.reply.intent) # response.df

\* a chart generation whose render failed left the table in the session
C24_WitnessFailed ==
    /\ Generation /\ RefRenderFailed
    /\ active_sessions[response.session_id].present
    /\ active_sessions[response.session_id].dataframe = response.df

\* a chart aggregated by sum was answered 200 and the session still holds
\* the table the request read
C24_WitnessAggregated ==
    /\ Generation /\ response.status = 200
    /\ response.reply.intent.aggregation = Sum
    /\ active_sessions[response.session_id].dataframe = response.df

====
